---- MODULE Spec2Model ----
(***************************************************************************)
(* The invite-tracking cog (src/invites/invites.py) as a state machine.    *)
(*                                                                         *)
(* Every command and listener is a coroutine on one cooperative event     *)
(* loop: it runs without interruption from one `await` to the next, and    *)
(* other coroutines may run in between.  A coroutine is a task record      *)
(* (its position `pc` and its local variables); one action of the model    *)
(* is the stretch of a handler between two awaits.                         *)
(*                                                                         *)
(* The Discord side (the invites of a guild, its members, the webhooks of  *)
(* a channel) is the environment.  Network calls the code does not guard   *)
(* with try/except are taken to succeed.                                   *)
(*                                                                         *)
(* The support-utility cog's contact panel (src/supportutils/core/views.py)*)
(* and its config merge (src/supportutils/core/config.py) are a second     *)
(* group of variables with their own specifications.                       *)
(***************************************************************************)
EXTENDS Integers, FiniteSets, Sequences, TLC

\* ------------------------------------------------------------------ bounds
Guilds == {1, 2}
Users == {"alice", "bob", "bot"}
Codes == {"a", "b"}
Tasks == {1, 2}
MaxUses == 2

IsBot(u) == u = "bot"

ChannelsOf(g) == {10 * g + 1, 10 * g + 2}

Channels == UNION {ChannelsOf(g) : g \in Guilds}

Ids == {0} \cup Guilds \cup Channels

\* str(id): the decimal text of an id
Str(n) ==
    CASE n = 0 -> "0"
      [] n = 1 -> "1"
      [] n = 2 -> "2"
      [] n = 11 -> "11"
      [] n = 12 -> "12"
      [] n = 21 -> "21"
      [] n = 22 -> "22"

\* int(text): the id a decimal text denotes
ToInt(s) == CHOOSE n \in Ids : Str(n) = s

GuildKeys == {Str(g) : g \in Guilds}

\* guild.get_channel(id): the channel of the guild with that id, 0 for None
get_channel(g, id) == IF id \in ChannelsOf(g) THEN id ELSE 0

\* webhook.url of the bot's webhook in a channel
WebhookUrl(ch) == CASE ch = 11 -> "wh11" [] ch = 12 -> "wh12" [] ch = 21 -> "wh21" [] ch = 22 -> "wh22"

Modes == {"None", "True", "False"}

Bool(m) == m = "True"

\* ------------------------------------------------------------- the config
NoEntry == [missing |-> TRUE]

default_config == [channel |-> Str(0), webhook |-> "None", enable |-> FALSE, store_data |-> TRUE]

GuildConfigs(g) ==
    [channel : {Str(0)} \cup {Str(c) : c \in ChannelsOf(g)},
     webhook : {"None"} \cup {WebhookUrl(c) : c \in ChannelsOf(g)},
     enable : BOOLEAN,
     store_data : BOOLEAN]

\* guild_config with `if config is None` dropped: the defaults are stored
\* on every call.
GuildConfigStore_Always(cache, guild_id) == [cache EXCEPT ![Str(guild_id)] = default_config]

\* The config cache after guild_config(guild_id): a missing entry is created
\* from a copy of default_config under str(guild_id).
GuildConfigStore(cache, guild_id) ==
    IF cache[Str(guild_id)] = NoEntry
    THEN [cache EXCEPT ![Str(guild_id)] = default_config]
    ELSE cache

\* What guild_config(guild_id) returns.
guild_config(cache, guild_id) == GuildConfigStore(cache, guild_id)[Str(guild_id)]

\* dict.update(new_config) on a config entry
DictUpdateChannel(cfg, ch) == [cfg EXCEPT !.channel = Str(ch), !.webhook = "None"]

DictUpdateEnable(cfg, mode) == [cfg EXCEPT !.enable = mode]

\* inv_store_enable's new_config
StoreEnableUpdate(cfg, mode) == [cfg EXCEPT !.enable = mode]

\* ------------------------------------------------------------------ state
VARIABLES
    config,          \* self.config: str(guild id) -> entry, or NoEntry
    db_config,       \* the config document as last written by config.update()
    invite_cache,    \* self.tracker.invite_cache: guild id -> snapshot, or NoSnap
    user_data,       \* the stored user-invite records: user -> guilds map, or NoData
    invites,         \* Discord: guild -> code -> uses (-1: no such invite)
    vanity,          \* Discord: whether the guild has a vanity URL
    members,         \* Discord: guild -> its members
    hooks,           \* Discord: channel -> number of webhooks with a token
    perms,           \* Discord: guild -> the bot has manage_webhooks
    tasks            \* the coroutines in flight

VARIABLES
    threads,         \* bot.threads: user -> number of open threads of that recipient
    bot,             \* the host bot: main guild members, blocked users, dm_disabled
    contact,         \* the ContactManager and its ContactViews: the view attached, the
                     \* views built, stopped and shown, the select options, whether one listens
    itx,             \* the interactions on the contact panel in flight
    stored,          \* the support-utility config document in the database
    su_cache         \* SupportUtilityConfig._cache

supportVars == <<threads, bot, contact, itx, stored, su_cache>>

inviteVars == <<config, db_config, invite_cache, user_data, invites, vanity, members, hooks, perms, tasks>>

vars == <<config, db_config, invite_cache, user_data, invites, vanity, members, hooks, perms, tasks,
          threads, bot, contact, itx, stored, su_cache>>

NoSnap == [missing |-> TRUE]

NoData == [missing |-> TRUE]

NoDoc == [missing |-> TRUE]

IdleTask ==
    [kind |-> "idle", pc |-> "idle", g |-> 0, u |-> "-", code |-> "-", mode |-> "None",
     shown |-> NoEntry, cfgLive |-> TRUE, cfgOld |-> NoEntry, logLive |-> TRUE,
     snap |-> NoSnap, pred |-> {}, hook |-> "None", chan |-> 0, data |-> NoData,
     warn |-> "none", via |-> "none", nsent |-> 0, logged |-> FALSE, nflush |-> 0,
     replied |-> FALSE, edited |-> FALSE, saved |-> FALSE, created |-> FALSE,
     invdata |-> "-", raised |-> "none", way |-> "-", alone |-> "-"]

\* The slot a newly scheduled coroutine takes.
FreeSlot(t) ==
    /\ tasks[t].kind = "idle"
    /\ \A s \in Tasks : s < t => tasks[s].kind # "idle"

EnvUnchanged == UNCHANGED <<invites, vanity, members, hooks, perms>> /\ UNCHANGED supportVars

\* The config a handler reads through its local `config`: the cache's entry,
\* or the dict it still holds after `invite config reset` replaced the entry.
ConfigOf(t) == IF tasks[t].cfgLive THEN config[Str(tasks[t].g)] ELSE tasks[t].cfgOld

\* Bookkeeping for the joins of guild g that have not compared yet: a join
\* that started on a cache equal to the guild's invites is "alone" until
\* another handler's join or cache assignment comes between its start and
\* its comparison, "raced" from then on.
Disturb(ts, g, pcs) ==
    [s \in Tasks |->
        IF ts[s].kind = "join" /\ ts[s].g = g /\ ts[s].pc \in pcs /\ ts[s].alone = "alone"
        THEN [ts[s] EXCEPT !.alone = "raced"]
        ELSE ts[s]]

\* ---------------------------------------------------------------- commands
\* `invite config`: shows the current configuration.
invites_config(t, g) ==
    /\ FreeSlot(t)
    /\ config' = GuildConfigStore(config, g)
    /\ tasks' = [tasks EXCEPT ![t] = [IdleTask EXCEPT !.kind = "config", !.pc = "reply", !.g = g,
                                         !.shown = guild_config(config, g)]]
    /\ UNCHANGED <<db_config, invite_cache, user_data>>
    /\ EnvUnchanged

\* `invite config channel [channel]` up to its first await (ch = 0: no argument).
invites_config_channel(t, g, ch) ==
    /\ FreeSlot(t)
    /\ LET cache == GuildConfigStore(config, g)
           key == Str(g)
       IN IF ch = 0
          THEN /\ config' = cache
               /\ tasks' = [tasks EXCEPT ![t] = [IdleTask EXCEPT !.kind = "channel", !.pc = "reply", !.g = g]]
          ELSE /\ config' = [cache EXCEPT ![key] = DictUpdateChannel(cache[key], ch)]
               /\ tasks' = [tasks EXCEPT ![t] = [IdleTask EXCEPT !.kind = "channel", !.pc = "flush", !.g = g,
                                                    !.mode = "Set", !.edited = TRUE]]
    /\ UNCHANGED <<db_config, invite_cache, user_data>>
    /\ EnvUnchanged

\* `invite config enable [mode]` up to its first await.
invites_config_enable(t, g, mode) ==
    /\ FreeSlot(t)
    /\ LET cache == GuildConfigStore(config, g)
           key == Str(g)
       IN IF mode = "None"
          THEN /\ config' = cache
               /\ tasks' = [tasks EXCEPT ![t] = [IdleTask EXCEPT !.kind = "enable", !.pc = "reply", !.g = g,
                                !.mode = IF cache[key].enable THEN "True" ELSE "False"]]
          ELSE /\ config' = [cache EXCEPT ![key] = DictUpdateEnable(cache[key], Bool(mode))]
               /\ tasks' = [tasks EXCEPT ![t] = [IdleTask EXCEPT !.kind = "enable", !.pc = "flush", !.g = g,
                                                    !.mode = mode, !.edited = TRUE]]
    /\ UNCHANGED <<db_config, invite_cache, user_data>>
    /\ EnvUnchanged

ListenerKinds == {"invite_create", "join", "leave"}

\* Every listener of guild g that holds the replaced entry keeps the old dict.
Detach(ts, g) ==
    [s \in Tasks |->
        IF ts[s].g = g /\ ts[s].kind \in ListenerKinds
        THEN [ts[s] EXCEPT !.cfgOld = IF ts[s].cfgLive THEN config[Str(g)] ELSE @,
                           !.cfgLive = FALSE, !.logLive = FALSE]
        ELSE ts[s]]

\* The fields of the embed `invite config reset` replies with.
ResetReply == [channel |-> "None", enabled |-> FALSE, webhook |-> "None"]

\* invites_config_reset that copies the defaults over the entry but for its webhook
invites_config_reset_keeps_webhook(t, g) ==
    /\ FreeSlot(t)
    /\ config' = [config EXCEPT ![Str(g)] =
           IF @ = NoEntry THEN default_config ELSE [default_config EXCEPT !.webhook = config[Str(g)].webhook]]
    /\ tasks' = [Detach(tasks, g) EXCEPT ![t] = [IdleTask EXCEPT !.kind = "reset", !.pc = "flush", !.g = g,
                                                    !.edited = TRUE, !.shown = ResetReply]]
    /\ UNCHANGED <<db_config, invite_cache, user_data>>
    /\ EnvUnchanged

\* `invite config reset` up to its first await.
invites_config_reset(t, g) ==
    /\ FreeSlot(t)
    /\ config' = [config EXCEPT ![Str(g)] = default_config]
    /\ tasks' = [Detach(tasks, g) EXCEPT ![t] = [IdleTask EXCEPT !.kind = "reset", !.pc = "flush", !.g = g,
                                                    !.edited = TRUE, !.shown = ResetReply]]
    /\ UNCHANGED <<db_config, invite_cache, user_data>>
    /\ EnvUnchanged

\* `invite store enable [mode]` up to its first await.
inv_store_enable(t, g, mode) ==
    /\ FreeSlot(t)
    /\ LET cache == GuildConfigStore(config, g)
           key == Str(g)
       IN IF mode = "None"
          THEN /\ config' = cache
               /\ tasks' = [tasks EXCEPT ![t] = [IdleTask EXCEPT !.kind = "store", !.pc = "reply", !.g = g,
                                !.mode = IF cache[key].store_data THEN "True" ELSE "False"]]
          ELSE /\ config' = [cache EXCEPT ![key] = StoreEnableUpdate(cache[key], Bool(mode))]
               /\ tasks' = [tasks EXCEPT ![t] = [IdleTask EXCEPT !.kind = "store", !.pc = "flush", !.g = g,
                                                    !.mode = mode, !.edited = TRUE]]
    /\ UNCHANGED <<db_config, invite_cache, user_data>>
    /\ EnvUnchanged

CommandKinds == {"config", "channel", "enable", "reset", "store"}

\* A command that goes on to its reply without `await self.config.update()`.
config_update_skipped(t) ==
    /\ tasks[t].kind \in CommandKinds
    /\ tasks[t].pc = "flush"
    /\ tasks' = [tasks EXCEPT ![t].pc = "reply"]
    /\ UNCHANGED <<config, db_config, invite_cache, user_data>>
    /\ EnvUnchanged

\* `await self.config.update()` of a command: the cache is written to the database.
config_update(t) ==
    /\ tasks[t].kind \in CommandKinds
    /\ tasks[t].pc = "flush"
    /\ db_config' = config
    /\ tasks' = [tasks EXCEPT ![t].pc = "reply", ![t].nflush = @ + 1]
    /\ UNCHANGED <<config, invite_cache, user_data>>
    /\ EnvUnchanged

\* `await ctx.send(embed=embed)` of a command, and what follows it without an await.
ctx_send(t) ==
    /\ tasks[t].kind \in CommandKinds
    /\ tasks[t].pc = "reply"
    /\ tasks' = [tasks EXCEPT ![t].replied = TRUE,
                              ![t].pc = IF tasks[t].kind = "enable" /\ Bool(tasks[t].mode)
                                        THEN "fetch" ELSE "done"]
    /\ UNCHANGED <<config, db_config, invite_cache, user_data>>
    /\ EnvUnchanged

\* `await ctx.guild.invites()` of `invite config enable`: Discord answers.
enable_fetch(t) ==
    /\ tasks[t].kind = "enable"
    /\ tasks[t].pc = "fetch"
    /\ tasks' = [tasks EXCEPT ![t].snap = invites[tasks[t].g], ![t].pc = "assign"]
    /\ UNCHANGED <<config, db_config, invite_cache, user_data>>
    /\ EnvUnchanged

\* `self.tracker.invite_cache[ctx.guild.id] = set(...)`: the coroutine resumes.
enable_assign(t) ==
    /\ tasks[t].kind = "enable"
    /\ tasks[t].pc = "assign"
    /\ invite_cache' = [invite_cache EXCEPT ![tasks[t].g] = tasks[t].snap]
    /\ tasks' = [Disturb(tasks, tasks[t].g, {"j_fetch", "j_diff"}) EXCEPT ![t].pc = "done", ![t].snap = NoSnap]
    /\ UNCHANGED <<config, db_config, user_data>>
    /\ EnvUnchanged

\* ------------------------------------------------------------ the tracker
\* get_used_invite comparing with >= : every cached invite still there is a candidate.
get_used_invite_geq(old, new, hasVanity) ==
    {c \in Codes : old # NoSnap /\ old[c] >= 0 /\ new[c] >= old[c]}

\* get_used_invite that answers with the vanity invite whenever the guild has one
get_used_invite_vanity_first(old, new, hasVanity) ==
    IF hasVanity THEN {"vanity"} ELSE {c \in Codes : old # NoSnap /\ old[c] >= 0 /\ new[c] > old[c]}

\* InviteTracker.get_used_invite: the invites whose use count is higher in the
\* fresh list than in the cached snapshot; the vanity invite when there is
\* none and the guild has a vanity URL.
Increased(old, new) ==
    {c \in Codes : old # NoSnap /\ old[c] >= 0 /\ new[c] > old[c]}

get_used_invite(old, new, hasVanity) ==
    IF Increased(old, new) = {} /\ hasVanity THEN {"vanity"} ELSE Increased(old, new)

\* set.update({invite}) on a cached snapshot: a created invite has no uses.
SetUpdate(snap, c) == IF snap[c] >= 0 THEN snap ELSE [snap EXCEPT ![c] = 0]

\* user_data["guilds"].clear() in place of the pop
Pop_clear(d, key) == [k \in {} |-> d[k]]

\* user_data["guilds"].pop(key)
Pop(d, key) == [k \in (DOMAIN d) \ {key} |-> d[k]]

\* InviteTracker.save_user_data: the invite is stored under the guild's key.
save_user_data(d, key, code) ==
    IF d = NoData
    THEN [k \in {key} |-> code]
    ELSE [k \in (DOMAIN d) \cup {key} |-> IF k = key THEN code ELSE d[k]]

\* ---------------------------------------------------------- send_log_embed
\* A listener from its `if channel is None` to the first await of
\* send_log_embed: `ch` is the listener's `channel`, `cache` the config cache.
send_log_embed(tk, ch, cache) ==
    LET wh_url == guild_config(cache, tk.g).webhook
    IN IF ch = 0 THEN [tk EXCEPT !.pc = "done"]
       ELSE IF wh_url # "None" THEN [tk EXCEPT !.chan = ch, !.hook = wh_url, !.logLive = TRUE, !.pc = "send"]
       ELSE IF ~perms[tk.g] THEN [tk EXCEPT !.chan = ch, !.logLive = TRUE, !.pc = "send"]
       ELSE [tk EXCEPT !.chan = ch, !.logLive = TRUE, !.pc = "wh_list"]

\* config["webhook"] = webhook.url, on the dict send_log_embed looked up
StoreWebhook(t) ==
    IF tasks[t].logLive
    THEN [config EXCEPT ![Str(tasks[t].g)].webhook = WebhookUrl(tasks[t].chan)]
    ELSE config

\* `await channel.webhooks()` answers: a webhook with a token is taken.
webhooks_list(t) ==
    /\ tasks[t].pc = "wh_list"
    /\ IF hooks[tasks[t].chan] > 0
       THEN /\ config' = StoreWebhook(t)
            /\ tasks' = [tasks EXCEPT ![t].hook = WebhookUrl(tasks[t].chan), ![t].pc = "wh_flush"]
       ELSE /\ config' = config
            /\ tasks' = [tasks EXCEPT ![t].pc = "wh_create"]
    /\ UNCHANGED <<db_config, invite_cache, user_data>>
    /\ EnvUnchanged

\* create_webhook whose exception ends the coroutine: no fallback to the channel.
create_webhook_raises(t, ok) ==
    /\ tasks[t].pc = "wh_create"
    /\ IF ok
       THEN /\ hooks' = [hooks EXCEPT ![tasks[t].chan] = @ + 1]
            /\ config' = StoreWebhook(t)
            /\ tasks' = [tasks EXCEPT ![t].hook = WebhookUrl(tasks[t].chan), ![t].created = TRUE,
                                      ![t].pc = "wh_flush"]
       ELSE /\ hooks' = hooks
            /\ config' = config
            /\ tasks' = [tasks EXCEPT ![t].pc = "done"]
    /\ UNCHANGED <<db_config, invite_cache, user_data, invites, vanity, members, perms>>
    /\ UNCHANGED supportVars

\* `await channel.create_webhook(...)` succeeds (ok) or raises.
create_webhook(t, ok) ==
    /\ tasks[t].pc = "wh_create"
    /\ IF ok
       THEN /\ hooks' = [hooks EXCEPT ![tasks[t].chan] = @ + 1]
            /\ config' = StoreWebhook(t)
            /\ tasks' = [tasks EXCEPT ![t].hook = WebhookUrl(tasks[t].chan), ![t].created = TRUE,
                                      ![t].pc = "wh_flush"]
       ELSE /\ hooks' = hooks
            /\ config' = config
            /\ tasks' = [tasks EXCEPT ![t].logged = TRUE, ![t].pc = "send"]
    /\ UNCHANGED <<db_config, invite_cache, user_data, invites, vanity, members, perms>>
    /\ UNCHANGED supportVars

\* `await self.config.update()` of send_log_embed
webhook_flush(t) ==
    /\ tasks[t].pc = "wh_flush"
    /\ db_config' = config
    /\ tasks' = [tasks EXCEPT ![t].nflush = @ + 1, ![t].pc = "send"]
    /\ UNCHANGED <<config, invite_cache, user_data>>
    /\ EnvUnchanged

\* send_func followed by `if len(pred_invs) == 1:` without the store_data test.
send_func_always_saves(t) ==
    /\ tasks[t].pc = "send"
    /\ tasks' = [tasks EXCEPT ![t].via = IF tasks[t].hook # "None" THEN "webhook" ELSE "channel",
                              ![t].nsent = @ + 1,
                              ![t].pc = IF tasks[t].kind = "join" /\ Cardinality(tasks[t].pred) = 1
                                        THEN "save" ELSE "done"]
    /\ UNCHANGED <<config, db_config, invite_cache, user_data>>
    /\ EnvUnchanged

\* `await send_func(**kwargs)`, and the rest of the listener up to its next await.
send_func(t) ==
    /\ tasks[t].pc = "send"
    /\ tasks' = [tasks EXCEPT ![t].via = IF tasks[t].hook # "None" THEN "webhook" ELSE "channel",
                              ![t].nsent = @ + 1,
                              ![t].pc = IF /\ tasks[t].kind = "join"
                                           /\ Cardinality(tasks[t].pred) = 1
                                           /\ ConfigOf(t).store_data
                                        THEN "save" ELSE "done"]
    /\ UNCHANGED <<config, db_config, invite_cache, user_data>>
    /\ EnvUnchanged

\* --------------------------------------------------------------- listeners
\* An invite is created in the guild; on_invite_create up to its first await.
on_invite_create(t, g, c) ==
    /\ FreeSlot(t)
    /\ invites[g][c] = -1
    /\ invites' = [invites EXCEPT ![g][c] = 0]
    /\ LET cache == GuildConfigStore(config, g)
           cfg == cache[Str(g)]
           tk == [IdleTask EXCEPT !.kind = "invite_create", !.g = g, !.code = c]
       IN /\ config' = cache
          /\ IF ~cfg.enable
             THEN /\ tasks' = [tasks EXCEPT ![t] = [tk EXCEPT !.pc = "done"]]
                  /\ UNCHANGED invite_cache
             ELSE IF invite_cache[g] = NoSnap
             THEN /\ tasks' = [tasks EXCEPT ![t] = [tk EXCEPT !.pc = "ic_fetch"]]
                  /\ UNCHANGED invite_cache
             ELSE /\ invite_cache' = [invite_cache EXCEPT ![g] = SetUpdate(@, c)]
                  /\ tasks' = [tasks EXCEPT ![t] =
                         send_log_embed(tk, get_channel(g, ToInt(cfg.channel)), cache)]
    /\ UNCHANGED <<db_config, user_data, vanity, members, hooks, perms>>
    /\ UNCHANGED supportVars

\* `await invite.guild.invites()` of on_invite_create: Discord answers.
invite_create_fetch(t) ==
    /\ tasks[t].kind = "invite_create"
    /\ tasks[t].pc = "ic_fetch"
    /\ tasks' = [tasks EXCEPT ![t].snap = invites[tasks[t].g], ![t].pc = "ic_assign"]
    /\ UNCHANGED <<config, db_config, invite_cache, user_data>>
    /\ EnvUnchanged

\* on_invite_create resumes: the fetched set becomes the guild's cache.
invite_create_assign(t) ==
    /\ tasks[t].kind = "invite_create"
    /\ tasks[t].pc = "ic_assign"
    /\ invite_cache' = [invite_cache EXCEPT ![tasks[t].g] = tasks[t].snap]
    /\ tasks' = [Disturb(tasks, tasks[t].g, {"j_fetch", "j_diff"}) EXCEPT ![t] =
           send_log_embed([tasks[t] EXCEPT !.snap = NoSnap],
                          get_channel(tasks[t].g, ToInt(ConfigOf(t).channel)), config)]
    /\ UNCHANGED <<config, db_config, user_data>>
    /\ EnvUnchanged

\* How a member came in: by an invite, by the vanity URL, or by neither.
JoinWays == Codes \cup {"vanity", "-"}

\* A user joins the guild; on_member_join up to its first await.
on_member_join(t, g, u, way) ==
    /\ FreeSlot(t)
    /\ u \notin members[g]
    /\ IsBot(u) => way = "-"
    /\ way = "vanity" => vanity[g]
    /\ way \in Codes => invites[g][way] >= 0 /\ invites[g][way] < MaxUses
    /\ members' = [members EXCEPT ![g] = @ \cup {u}]
    /\ invites' = IF way \in Codes THEN [invites EXCEPT ![g][way] = @ + 1] ELSE invites
    /\ LET cache == GuildConfigStore(config, g)
           cfg == cache[Str(g)]
           ch == get_channel(g, ToInt(cfg.channel))
           tk == [IdleTask EXCEPT !.kind = "join", !.g = g, !.u = u, !.way = way,
                     !.alone = IF way \in Codes /\ invite_cache[g] = invites[g] THEN "alone" ELSE "stale"]
       IN IF IsBot(u)
          THEN /\ config' = config
               /\ tasks' = [tasks EXCEPT ![t] = [tk EXCEPT !.pc = "done"]]
          ELSE /\ config' = cache
               /\ tasks' = [Disturb(tasks, g, {"j_fetch"}) EXCEPT ![t] =
                      IF ~cfg.enable \/ ch = 0
                      THEN [tk EXCEPT !.pc = "done"]
                      ELSE [tk EXCEPT !.chan = ch, !.pc = "j_fetch"]]
    /\ UNCHANGED <<db_config, invite_cache, user_data, vanity, hooks, perms>>
    /\ UNCHANGED supportVars

\* `await guild.invites()` of get_used_invite: Discord answers.
join_fetch(t) ==
    /\ tasks[t].kind = "join"
    /\ tasks[t].pc = "j_fetch"
    /\ tasks' = [tasks EXCEPT ![t].snap = invites[tasks[t].g], ![t].pc = "j_diff"]
    /\ UNCHANGED <<config, db_config, invite_cache, user_data>>
    /\ EnvUnchanged

\* The warning with the `else` of `if len(pred_invs) == 1` lost.
Warning_single_only(pred) == IF pred = {} THEN "unresolved" ELSE "none"

\* The warning on_member_join puts in the embed.
Warning(pred) ==
    IF pred = {} THEN "unresolved" ELSE IF Cardinality(pred) = 1 THEN "none" ELSE "multiple"

\* get_used_invite resumes, and on_member_join up to the first await of send_log_embed.
join_diff(t) ==
    /\ tasks[t].kind = "join"
    /\ tasks[t].pc = "j_diff"
    /\ LET g == tasks[t].g
           pred == get_used_invite(invite_cache[g], tasks[t].snap, vanity[g])
       IN /\ invite_cache' = [invite_cache EXCEPT ![g] = tasks[t].snap]
          /\ tasks' = [Disturb(tasks, g, {"j_fetch", "j_diff"}) EXCEPT ![t] =
                 send_log_embed([tasks[t] EXCEPT !.pred = pred, !.warn = Warning(pred), !.snap = NoSnap],
                                tasks[t].chan, config)]
    /\ UNCHANGED <<config, db_config, user_data>>
    /\ EnvUnchanged

\* `await self.tracker.save_user_data(member, pred_invs[0])`
join_save(t) ==
    /\ tasks[t].kind = "join"
    /\ tasks[t].pc = "save"
    /\ user_data' = [user_data EXCEPT ![tasks[t].u] =
           save_user_data(@, Str(tasks[t].g), CHOOSE c \in tasks[t].pred : TRUE)]
    /\ tasks' = [tasks EXCEPT ![t].saved = TRUE, ![t].pc = "done"]
    /\ UNCHANGED <<config, db_config, invite_cache>>
    /\ EnvUnchanged

\* on_member_remove that looks for the log channel before it reads the record
on_member_remove_channel_first(t, g, u) ==
    /\ FreeSlot(t)
    /\ u \in members[g]
    /\ members' = [members EXCEPT ![g] = @ \ {u}]
    /\ LET cache == GuildConfigStore(config, g)
           tk == [IdleTask EXCEPT !.kind = "leave", !.g = g, !.u = u]
       IN IF IsBot(u)
          THEN /\ config' = config
               /\ tasks' = [tasks EXCEPT ![t] = [tk EXCEPT !.pc = "done"]]
          ELSE /\ config' = cache
               /\ tasks' = [tasks EXCEPT ![t] =
                      [tk EXCEPT !.pc = IF /\ cache[Str(g)].enable
                                            /\ get_channel(g, ToInt(cache[Str(g)].channel)) # 0
                                         THEN "l_read" ELSE "done"]]
    /\ UNCHANGED <<db_config, invite_cache, user_data, invites, vanity, hooks, perms>>
    /\ UNCHANGED supportVars

\* A member leaves the guild; on_member_remove up to its first await.
on_member_remove(t, g, u) ==
    /\ FreeSlot(t)
    /\ u \in members[g]
    /\ members' = [members EXCEPT ![g] = @ \ {u}]
    /\ LET cache == GuildConfigStore(config, g)
           tk == [IdleTask EXCEPT !.kind = "leave", !.g = g, !.u = u]
       IN IF IsBot(u)
          THEN /\ config' = config
               /\ tasks' = [tasks EXCEPT ![t] = [tk EXCEPT !.pc = "done"]]
          ELSE /\ config' = cache
               /\ tasks' = [tasks EXCEPT ![t] =
                      [tk EXCEPT !.pc = IF cache[Str(g)].enable THEN "l_read" ELSE "done"]]
    /\ UNCHANGED <<db_config, invite_cache, user_data, invites, vanity, hooks, perms>>
    /\ UNCHANGED supportVars

\* on_member_remove from `if channel is None` to its next await.
remove_log(tk, ch, cache) ==
    IF ch # 0 /\ tk.invdata # "-"
    THEN [tk EXCEPT !.chan = ch, !.pc = "l_invite"]
    ELSE send_log_embed(tk, ch, cache)

\* remove_read without `not user_data["guilds"]`: an emptied record is updated.
remove_read_keeps_empty(t) ==
    /\ tasks[t].kind = "leave"
    /\ tasks[t].pc = "l_read"
    /\ LET key == Str(tasks[t].g)
           user == user_data[tasks[t].u]
       IN tasks' = [tasks EXCEPT ![t] =
              IF user # NoData /\ key \in DOMAIN user
              THEN [tasks[t] EXCEPT !.invdata = user[key], !.data = Pop(user, key),
                       !.pc = IF ~ConfigOf(t).store_data THEN "l_remove" ELSE "l_update"]
              ELSE remove_log(tasks[t], get_channel(tasks[t].g, ToInt(ConfigOf(t).channel)), config)]
    /\ UNCHANGED <<config, db_config, invite_cache, user_data>>
    /\ EnvUnchanged

\* `await self.tracker.get_user_data(member)` answers, and on_member_remove up
\* to its next await.
remove_read(t) ==
    /\ tasks[t].kind = "leave"
    /\ tasks[t].pc = "l_read"
    /\ LET key == Str(tasks[t].g)
           user == user_data[tasks[t].u]
       IN tasks' = [tasks EXCEPT ![t] =
              IF user # NoData /\ key \in DOMAIN user
              THEN [tasks[t] EXCEPT !.invdata = user[key], !.data = Pop(user, key),
                       !.pc = IF DOMAIN Pop(user, key) = {} \/ ~ConfigOf(t).store_data
                              THEN "l_remove" ELSE "l_update"]
              ELSE remove_log(tasks[t], get_channel(tasks[t].g, ToInt(ConfigOf(t).channel)), config)]
    /\ UNCHANGED <<config, db_config, invite_cache, user_data>>
    /\ EnvUnchanged

\* `await self.tracker.remove_user_data(member.id)`
remove_user_data(t) ==
    /\ tasks[t].kind = "leave"
    /\ tasks[t].pc = "l_remove"
    /\ user_data' = [user_data EXCEPT ![tasks[t].u] = NoData]
    /\ tasks' = [tasks EXCEPT ![t] =
           remove_log([tasks[t] EXCEPT !.data = NoData],
                      get_channel(tasks[t].g, ToInt(ConfigOf(t).channel)), config)]
    /\ UNCHANGED <<config, db_config, invite_cache>>
    /\ EnvUnchanged

\* `await self.tracker.update_user_data(member, data=user_data)`
update_user_data(t) ==
    /\ tasks[t].kind = "leave"
    /\ tasks[t].pc = "l_update"
    /\ user_data' = [user_data EXCEPT ![tasks[t].u] = tasks[t].data]
    /\ tasks' = [tasks EXCEPT ![t] =
           remove_log([tasks[t] EXCEPT !.data = NoData],
                      get_channel(tasks[t].g, ToInt(ConfigOf(t).channel)), config)]
    /\ UNCHANGED <<config, db_config, invite_cache>>
    /\ EnvUnchanged

\* `await PartialInvite.from_data(...)`, and on_member_remove up to the first
\* await of send_log_embed.
remove_invite(t) ==
    /\ tasks[t].kind = "leave"
    /\ tasks[t].pc = "l_invite"
    /\ tasks' = [tasks EXCEPT ![t] = send_log_embed(tasks[t], tasks[t].chan, config)]
    /\ UNCHANGED <<config, db_config, invite_cache, user_data>>
    /\ EnvUnchanged

\* ---------------------------------------------- the store and delete commands
StoreKinds == {"store_get", "store_del", "store_clear", "inv_delete"}

\* InviteTracker.get_invite_used_by: the invite on record for the member in
\* the member's guild, "-" for None.
get_invite_used_by(d, key) == IF d # NoData /\ key \in DOMAIN d THEN d[key] ELSE "-"

\* `invite store get <member>` up to its first await.
inv_store_get(t, g, u) ==
    /\ FreeSlot(t)
    /\ u \in members[g]
    /\ tasks' = [tasks EXCEPT ![t] = [IdleTask EXCEPT !.kind = "store_get", !.pc = "sg_read", !.g = g, !.u = u]]
    /\ UNCHANGED <<config, db_config, invite_cache, user_data>>
    /\ EnvUnchanged

\* `await self.tracker.get_invite_used_by(member)` answers.
store_get_read(t) ==
    /\ tasks[t].pc = "sg_read"
    /\ tasks' = [tasks EXCEPT ![t] =
           IF get_invite_used_by(user_data[tasks[t].u], Str(tasks[t].g)) = "-"
           THEN [@ EXCEPT !.raised = "BadArgument", !.pc = "done"]
           ELSE [@ EXCEPT !.invdata = get_invite_used_by(user_data[tasks[t].u], Str(tasks[t].g)),
                          !.pc = "st_send"]]
    /\ UNCHANGED <<config, db_config, invite_cache, user_data>>
    /\ EnvUnchanged

\* `invite store delete <user_id>` up to its first await.
inv_store_del(t, g, u) ==
    /\ FreeSlot(t)
    /\ tasks' = [tasks EXCEPT ![t] = [IdleTask EXCEPT !.kind = "store_del", !.pc = "sd_remove", !.g = g, !.u = u]]
    /\ UNCHANGED <<config, db_config, invite_cache, user_data>>
    /\ EnvUnchanged

\* store_del_remove without `if data is None: raise`
store_del_remove_unchecked(t) ==
    /\ tasks[t].pc = "sd_remove"
    /\ user_data' = [user_data EXCEPT ![tasks[t].u] = NoData]
    /\ tasks' = [tasks EXCEPT ![t].data = user_data[tasks[t].u], ![t].pc = "st_send"]
    /\ UNCHANGED <<config, db_config, invite_cache>>
    /\ EnvUnchanged

\* `data = await self.tracker.remove_user_data(user_id)`: the record is
\* deleted and returned, None without one.
store_del_remove(t) ==
    /\ tasks[t].pc = "sd_remove"
    /\ user_data' = [user_data EXCEPT ![tasks[t].u] = NoData]
    /\ tasks' = [tasks EXCEPT ![t] =
           IF user_data[tasks[t].u] = NoData
           THEN [@ EXCEPT !.raised = "BadArgument", !.pc = "done"]
           ELSE [@ EXCEPT !.data = user_data[tasks[t].u], !.pc = "st_send"]]
    /\ UNCHANGED <<config, db_config, invite_cache>>
    /\ EnvUnchanged

\* `invite store --clear` up to `view.message = await ctx.send(embed=embed, view=view)`.
inv_store_clear(t, g) ==
    /\ FreeSlot(t)
    /\ tasks' = [tasks EXCEPT ![t] = [IdleTask EXCEPT !.kind = "store_clear", !.pc = "sc_prompt", !.g = g]]
    /\ UNCHANGED <<config, db_config, invite_cache, user_data>>
    /\ EnvUnchanged

\* The confirmation prompt is out; `await view.wait()`.
store_clear_prompt(t) ==
    /\ tasks[t].pc = "sc_prompt"
    /\ tasks' = [tasks EXCEPT ![t].pc = "sc_wait"]
    /\ UNCHANGED <<config, db_config, invite_cache, user_data>>
    /\ EnvUnchanged

\* The ConfirmView ends: confirmed (value) or not.
store_clear_wait(t, value) ==
    /\ tasks[t].pc = "sc_wait"
    /\ tasks' = [tasks EXCEPT ![t].pc = IF value THEN "sc_clear" ELSE "done"]
    /\ UNCHANGED <<config, db_config, invite_cache, user_data>>
    /\ EnvUnchanged

\* `await self.tracker.clear_all_data()` deletes every record (ok) or raises.
store_clear_all(t, ok) ==
    /\ tasks[t].pc = "sc_clear"
    /\ user_data' = IF ok THEN [u \in Users |-> NoData] ELSE user_data
    /\ tasks' = [tasks EXCEPT ![t] =
           IF ok THEN [@ EXCEPT !.pc = "st_send"]
           ELSE [@ EXCEPT !.raised = "BadArgument", !.pc = "done"]]
    /\ UNCHANGED <<config, db_config, invite_cache>>
    /\ EnvUnchanged

\* `invite delete <invite>` up to its first await: the invite with code c of
\* guild ig, invoked in guild g.
invites_delete(t, g, ig, c) ==
    /\ FreeSlot(t)
    /\ invites[ig][c] >= 0
    /\ tasks' = [tasks EXCEPT ![t] =
           [IdleTask EXCEPT !.kind = "inv_delete", !.g = g, !.code = c, !.chan = ig,
                            !.raised = IF ig # g THEN "BadArgument" ELSE "none",
                            !.pc = IF ig # g THEN "done" ELSE "id_delete"]]
    /\ UNCHANGED <<config, db_config, invite_cache, user_data>>
    /\ EnvUnchanged

\* `await invite.delete()` deletes the invite (ok) or raises Forbidden, which
\* the command turns into BadArgument; for an invite that is gone by now it
\* raises NotFound, which the command does not catch.
invite_delete(t, ok) ==
    /\ tasks[t].pc = "id_delete"
    /\ LET gone == invites[tasks[t].g][tasks[t].code] < 0
       IN /\ invites' = IF ok /\ ~gone THEN [invites EXCEPT ![tasks[t].g][tasks[t].code] = -1] ELSE invites
          /\ tasks' = [tasks EXCEPT ![t] =
                 IF ~ok THEN [@ EXCEPT !.raised = "BadArgument", !.pc = "done"]
                 ELSE IF gone THEN [@ EXCEPT !.raised = "NotFound", !.pc = "done"]
                 ELSE [@ EXCEPT !.pc = "st_send"]]
    /\ UNCHANGED <<config, db_config, invite_cache, user_data, vanity, members, hooks, perms>>
    /\ UNCHANGED supportVars

\* The final `await ctx.send(embed=embed)` of these commands.
store_send(t) ==
    /\ tasks[t].kind \in StoreKinds
    /\ tasks[t].pc = "st_send"
    /\ tasks' = [tasks EXCEPT ![t].replied = TRUE, ![t].pc = "done"]
    /\ UNCHANGED <<config, db_config, invite_cache, user_data>>
    /\ EnvUnchanged

\* A finished coroutine is dropped.
Finish(t) ==
    /\ tasks[t].pc = "done"
    /\ tasks' = [tasks EXCEPT ![t] = IdleTask]
    /\ UNCHANGED <<config, db_config, invite_cache, user_data>>
    /\ EnvUnchanged

\* ------------------------------------------------------- the contact panel
PanelUsers == {"alice", "bob"}

Interactions == {1, 2}

MaxThreads == 2

\* core.models.DMDisabled
DMDisabled == {"NONE", "NEW_THREADS", "ALL_THREADS"}

\* The category channels bot.get_channel resolves.
ExistingCategories == {5}

\* manager.config["select"]["options"]: one option with a category that
\* resolves, one with a category that does not, one with no category set
\* (0 stands for None).
PanelOptions ==
    <<[label |-> "help", category |-> 5],
      [label |-> "sales", category |-> 6],
      [label |-> "other", category |-> 0]>>

Labels(options) == {options[k].label : k \in DOMAIN options}

IdleItx ==
    [kind |-> "idle", pc |-> "idle", user |-> "-", reason |-> "none", reply |-> "none", passed |-> FALSE,
     dd |-> "none", picked |-> "-", inputs |-> "-", category |-> 0,
     created |-> FALSE, createdCat |-> 0, cancelled |-> FALSE,
     raised |-> "none", logged |-> FALSE, announced |-> FALSE, late |-> FALSE]

\* The manager before any ContactView is constructed: manager.view is MISSING
\* (0), no view object exists.
NoContactView(options) ==
    [select_options |-> options, listening |-> FALSE,
     view |-> 0, built |-> 0, withMessage |-> {}, shown |-> {}, stopped |-> {}, stopping |-> {},
     error |-> "none", refusedBy |-> 0, refusedStopped |-> FALSE, suppressed |-> FALSE]

\* The manager with its first ContactView attached, on the panel message.
OneContactView(options) ==
    [NoContactView(options) EXCEPT !.listening = TRUE, !.view = 1, !.built = 1,
                                   !.withMessage = {1}, !.shown = {1}]

FreeItx(i) ==
    /\ itx[i].pc = "idle"
    /\ \A j \in Interactions : j < i => itx[j].pc # "idle"

InFlight(u) == {j \in Interactions : itx[j].pc # "idle" /\ itx[j].user = u}

PanelUnchanged == UNCHANGED <<stored, su_cache>> /\ UNCHANGED inviteVars

\* A user presses the contact button: the view's interaction_check up to its
\* first await.
contact_press(i, u) ==
    /\ FreeItx(i)
    /\ contact.listening
    /\ threads[u] + Cardinality(InFlight(u)) < MaxThreads
    /\ itx' = [itx EXCEPT ![i] = [IdleItx EXCEPT !.kind = "contact", !.user = u,
                  !.late = \E j \in Interactions : itx[j].raised # "none",
                  !.pc = IF u \notin bot.members THEN "c_defer" ELSE "c_find"]]
    /\ UNCHANGED <<threads, bot, contact>>
    /\ PanelUnchanged

\* `await interaction.response.defer()` for a user who is not in the main guild.
check_defer(i) ==
    /\ itx[i].pc = "c_defer"
    /\ itx' = [itx EXCEPT ![i].reply = "defer", ![i].pc = "done"]
    /\ UNCHANGED <<threads, bot, contact>>
    /\ PanelUnchanged

\* `await self.bot.threads.find(recipient=user)` answers.
check_find(i) ==
    /\ itx[i].pc = "c_find"
    /\ itx' = [itx EXCEPT ![i] =
           IF threads[itx[i].user] > 0
           THEN [@ EXCEPT !.reason = "exists", !.pc = "c_refuse"]
           ELSE [@ EXCEPT !.pc = "c_blocked"]]
    /\ UNCHANGED <<threads, bot, contact>>
    /\ PanelUnchanged

\* interaction_check with the dm_disabled test before the blocked test
check_blocked_disabled_first(i) ==
    /\ itx[i].pc = "c_blocked"
    /\ itx' = [itx EXCEPT ![i] =
           IF bot.dm_disabled \in {"NEW_THREADS", "ALL_THREADS"}
           THEN [@ EXCEPT !.reason = "disabled", !.pc = "c_refuse"]
           ELSE IF itx[i].user \in bot.blocked
           THEN [@ EXCEPT !.reason = "blocked", !.pc = "c_refuse"]
           ELSE [@ EXCEPT !.passed = TRUE, !.pc = "h_defer"]]
    /\ UNCHANGED <<threads, bot, contact>>
    /\ PanelUnchanged

\* `await self.bot.is_blocked(user)` answers; the dm_disabled test; on True the
\* button's callback handle_interaction starts and runs to its first await.
check_blocked(i) ==
    /\ itx[i].pc = "c_blocked"
    /\ itx' = [itx EXCEPT ![i] =
           IF itx[i].user \in bot.blocked
           THEN [@ EXCEPT !.reason = "blocked", !.pc = "c_refuse"]
           ELSE IF bot.dm_disabled \in {"NEW_THREADS", "ALL_THREADS"}
           THEN [@ EXCEPT !.reason = "disabled", !.pc = "c_refuse"]
           ELSE [@ EXCEPT !.passed = TRUE, !.pc = "h_defer"]]
    /\ UNCHANGED <<threads, bot, contact>>
    /\ PanelUnchanged

\* `await interaction.response.send_message(embed=embed, ephemeral=True)`
check_refuse(i) ==
    /\ itx[i].pc = "c_refuse"
    /\ itx' = [itx EXCEPT ![i].reply = "ephemeral", ![i].pc = "done"]
    /\ UNCHANGED <<threads, bot, contact>>
    /\ PanelUnchanged

\* on_error that also stops the view
on_error_stops(c, tk) ==
    [contact |-> [c EXCEPT !.listening = FALSE],
     itx |-> [tk EXCEPT !.logged = TRUE, !.pc = "done"]]

\* BaseView.on_error: the exception is logged, nothing else happens; the
\* coroutine of the interaction ends.
on_error(c, tk) ==
    [contact |-> c,
     itx |-> [tk EXCEPT !.logged = TRUE, !.pc = "done"]]

\* Modal.on_error: the exception is logged, nothing else happens.
Modal_on_error(tk) == [tk EXCEPT !.logged = TRUE, !.pc = "done"]

\* A user submits the feedback modal: Modal.on_submit up to
\* `await self.followup_callback(interaction, self)`.
modal_submit(i, u) ==
    /\ FreeItx(i)
    /\ itx' = [itx EXCEPT ![i] = [IdleItx EXCEPT !.kind = "modal", !.user = u, !.pc = "m_followup"]]
    /\ UNCHANGED <<threads, bot, contact>>
    /\ PanelUnchanged

\* The followup callback returns (ok) or raises.
modal_followup(i, ok) ==
    /\ itx[i].pc = "m_followup"
    /\ itx' = [itx EXCEPT ![i] =
           IF ok THEN [@ EXCEPT !.pc = "done"]
           ELSE Modal_on_error([@ EXCEPT !.raised = "Exception"])]
    /\ UNCHANGED <<threads, bot, contact>>
    /\ PanelUnchanged

\* handle_interaction after `await interaction.response.defer()`.
handle_defer(i) ==
    /\ itx[i].pc = "h_defer"
    /\ itx' = [itx EXCEPT ![i].pc = IF contact.select_options # <<>> THEN "h_menu" ELSE "h_create"]
    /\ UNCHANGED <<threads, bot, contact>>
    /\ PanelUnchanged

\* `view.message = await interaction.followup.send(view=view, ephemeral=True)`
handle_menu(i) ==
    /\ itx[i].pc = "h_menu"
    /\ itx' = [itx EXCEPT ![i].pc = "h_wait"]
    /\ UNCHANGED <<threads, bot, contact>>
    /\ PanelUnchanged

\* The user picks the k-th option of the dropdown: DropdownMenu.callback and
\* _dropdown_callback up to `await interaction.response.defer()`.
dropdown_select(i, k) ==
    /\ itx[i].pc = "h_wait"
    /\ itx[i].dd = "none"
    /\ k \in DOMAIN contact.select_options
    /\ itx' = [itx EXCEPT ![i].dd = "defer", ![i].picked = contact.select_options[k].label]
    /\ UNCHANGED <<threads, bot, contact>>
    /\ PanelUnchanged

\* _dropdown_callback resumes: the option goes to view.inputs, the view stops
\* (a handler waiting on it is woken), the menu message is deleted.
dropdown_callback(i) ==
    /\ itx[i].dd = "defer"
    /\ itx' = [itx EXCEPT ![i].dd = "done", ![i].inputs = itx[i].picked,
                          ![i].pc = IF @ = "h_wait" THEN "h_resume" ELSE @]
    /\ UNCHANGED <<threads, bot, contact>>
    /\ PanelUnchanged

\* The dropdown view times out (300 s) before anything is in view.inputs.
view_timeout(i) ==
    /\ itx[i].pc = "h_wait"
    /\ itx' = [itx EXCEPT ![i].pc = "h_resume"]
    /\ UNCHANGED <<threads, bot, contact>>
    /\ PanelUnchanged

\* The category id of the first option with that label; 0 (None) without one.
CategoryOf(options, label) ==
    LET hits == {k \in DOMAIN options : options[k].label = label}
    IN IF hits = {} THEN 0
       ELSE options[CHOOSE k \in hits : \A j \in hits : k <= j].category

\* bot.get_channel(int(category_id)): 0 for None
get_category(id) == IF id \in ExistingCategories THEN id ELSE 0

\* handle_resume without `if not view.inputs: return`
handle_resume_unchecked(i) ==
    /\ itx[i].pc = "h_resume"
    /\ LET category_id == CategoryOf(contact.select_options, itx[i].inputs)
           out == IF category_id = 0
                  THEN [contact |-> contact, itx |-> [itx[i] EXCEPT !.pc = "h_create"]]
                  ELSE [contact |-> contact,
                        itx |-> [itx[i] EXCEPT !.category = get_category(category_id),
                                               !.logged = get_category(category_id) = 0,
                                               !.pc = "h_create"]]
       IN /\ itx' = [itx EXCEPT ![i] = out.itx]
          /\ contact' = out.contact
    /\ UNCHANGED <<threads, bot>>
    /\ PanelUnchanged

\* `await view.wait()` returns; handle_interaction up to `await manager.create`.
handle_resume(i) ==
    /\ itx[i].pc = "h_resume"
    /\ LET category_id == CategoryOf(contact.select_options, itx[i].inputs)
           out == IF itx[i].inputs = "-"
                  THEN [contact |-> contact, itx |-> [itx[i] EXCEPT !.pc = "done"]]
                  ELSE IF category_id = 0
                  THEN on_error(contact, [itx[i] EXCEPT !.raised = "ValueError"])
                  ELSE [contact |-> contact,
                        itx |-> [itx[i] EXCEPT !.category = get_category(category_id),
                                               !.logged = get_category(category_id) = 0,
                                               !.pc = "h_create"]]
       IN /\ itx' = [itx EXCEPT ![i] = out.itx]
          /\ contact' = out.contact
    /\ UNCHANGED <<threads, bot>>
    /\ PanelUnchanged

\* ContactManager.create: the thread of the recipient is made in the category
\* given; the user may cancel it at its confirmation.
manager_create(i, cancelled) ==
    /\ itx[i].pc = "h_create"
    /\ threads' = IF cancelled THEN threads ELSE [threads EXCEPT ![itx[i].user] = @ + 1]
    /\ itx' = [itx EXCEPT ![i].created = TRUE, ![i].createdCat = itx[i].category,
                          ![i].cancelled = cancelled,
                          ![i].pc = IF cancelled THEN "done" ELSE "h_ready"]
    /\ UNCHANGED <<bot, contact>>
    /\ PanelUnchanged

\* `await thread.wait_until_ready()`
thread_ready(i) ==
    /\ itx[i].pc = "h_ready"
    /\ itx' = [itx EXCEPT ![i].pc = "h_send"]
    /\ UNCHANGED <<threads, bot, contact>>
    /\ PanelUnchanged

\* `await thread.channel.send(embed=embed)`
thread_send(i) ==
    /\ itx[i].pc = "h_send"
    /\ itx' = [itx EXCEPT ![i].announced = TRUE, ![i].pc = "done"]
    /\ UNCHANGED <<threads, bot, contact>>
    /\ PanelUnchanged

\* The coroutine of a handled interaction is dropped.
itx_finish(i) ==
    /\ itx[i].pc = "done"
    /\ itx[i].dd # "defer"
    /\ itx' = [itx EXCEPT ![i] = IdleItx]
    /\ UNCHANGED <<threads, bot, contact>>
    /\ PanelUnchanged

\* ---- the host bot around the panel
\* A moderator blocks or unblocks a user.
bot_block(u) ==
    /\ bot' = [bot EXCEPT !.blocked = IF u \in @ THEN @ \ {u} ELSE @ \cup {u}]
    /\ UNCHANGED <<threads, contact, itx>>
    /\ PanelUnchanged

\* A user leaves or joins the main guild.
bot_member(u) ==
    /\ bot' = [bot EXCEPT !.members = IF u \in @ THEN @ \ {u} ELSE @ \cup {u}]
    /\ UNCHANGED <<threads, contact, itx>>
    /\ PanelUnchanged

\* The dm_disabled setting of the bot is changed.
bot_disable(v) ==
    /\ bot.dm_disabled # v
    /\ bot' = [bot EXCEPT !.dm_disabled = v]
    /\ UNCHANGED <<threads, contact, itx>>
    /\ PanelUnchanged

\* A thread of the user is closed.
thread_close(u) ==
    /\ threads[u] > 0
    /\ threads' = [threads EXCEPT ![u] = @ - 1]
    /\ UNCHANGED <<bot, contact, itx>>
    /\ PanelUnchanged

\* ---- the ContactViews of the manager
MaxViews == 3

\* The views that dispatch interactions: constructed and not stopped.
Listening(c) == \E v \in 1..c.built : v \notin c.stopped

\* ContactView.__init__ without the test of manager.view
ContactView_init_unchecked(withMessage) ==
    /\ contact.built < MaxViews
    /\ LET v == contact.built + 1
       IN contact' = [contact EXCEPT !.view = v, !.built = v, !.listening = TRUE,
                         !.withMessage = IF withMessage THEN @ \cup {v} ELSE @,
                         !.shown = IF withMessage THEN @ \cup {v} ELSE @,
                         !.error = "none"]
    /\ UNCHANGED <<threads, bot, itx>>
    /\ PanelUnchanged

\* ContactView(cog, message): RuntimeError while the manager has a view;
\* otherwise the new view becomes the manager's view. A message that is
\* passed is the one that shows the view.
ContactView_init(withMessage) ==
    /\ IF contact.view # 0
       THEN contact' = [contact EXCEPT !.error = "RuntimeError", !.refusedBy = contact.view,
                           !.refusedStopped = contact.view \in contact.stopped]
       ELSE /\ contact.built < MaxViews
            /\ LET v == contact.built + 1
               IN contact' = [contact EXCEPT !.view = v, !.built = v, !.listening = TRUE,
                                 !.withMessage = IF withMessage THEN @ \cup {v} ELSE @,
                                 !.shown = IF withMessage THEN @ \cup {v} ELSE @,
                                 !.error = "none"]
    /\ UNCHANGED <<threads, bot, itx>>
    /\ PanelUnchanged

\* force_stop of view v up to `await self.message.edit(view=None)`: the view
\* stops; without a message the coroutine is over.
force_stop(v) ==
    /\ v \in 1..contact.built
    /\ v \notin contact.stopping
    /\ LET c == [contact EXCEPT !.stopped = @ \cup {v},
                                !.stopping = IF v \in contact.withMessage THEN @ \cup {v} ELSE @]
       IN contact' = [c EXCEPT !.listening = Listening(c)]
    /\ UNCHANGED <<threads, bot, itx>>
    /\ PanelUnchanged

\* `await self.message.edit(view=None)` answers: the view is off the message,
\* or discord.HTTPException is raised and suppressed.
message_edit(v, ok) ==
    /\ v \in contact.stopping
    /\ contact' = [contact EXCEPT !.stopping = @ \ {v},
                                  !.shown = IF ok THEN @ \ {v} ELSE @,
                                  !.suppressed = ~ok]
    /\ UNCHANGED <<threads, bot, itx>>
    /\ PanelUnchanged

\* The manager gives up its view: manager.view is MISSING again.
manager_detach ==
    /\ contact.view # 0
    /\ contact' = [contact EXCEPT !.view = 0]
    /\ UNCHANGED <<threads, bot, itx>>
    /\ PanelUnchanged

\* ------------------------------------------------- the support-utility config
\* A document is a tree: a dict node maps keys to nodes, a value node holds
\* anything else (None, a bool, a string, a list) by its text.
Dict(f) == [t |-> "dict", d |-> f]

Val(v) == [t |-> "val", v |-> v]

EmptyDict == Dict([k \in {} |-> Val("None")])

PanelEmbed(title, description) ==
    Dict("title" :> Val(title) @@ "description" :> Val(description) @@ "footer" :> Val("None"))

\* _default_config
su_default_config ==
    Dict("contact" :> Dict(
             "message" :> Val("None") @@
             "channel" :> Val("None") @@
             "embed" :> PanelEmbed("Contact Staff", "Use button or dropdown below to contact our staff.") @@
             "button" :> EmptyDict @@
             "select" :> Dict("options" :> Val("[]") @@ "placeholder" :> Val("Choose a category")) @@
             "override_dmdisabled" :> Val("False") @@
             "confirmation" :> Dict(
                 "enable" :> Val("True") @@
                 "embed" :> PanelEmbed("Confirm thread creation", "Use the button below to confirm thread creation"))) @@
         "feedback" :> Dict(
             "enable" :> Val("False") @@
             "channel" :> Val("None") @@
             "embed" :> PanelEmbed("Feedback", "Press the button below to give a feedback.") @@
             "button" :> EmptyDict @@
             "response" :> Val("Thanks for your time.") @@
             "active_sessions" :> Val("[]") @@
             "rating" :> Dict("enable" :> Val("False") @@ "placeholder" :> Val("Choose a rating"))))

TypeError == [t |-> "raise", v |-> "TypeError"]

\* recursively_resolve_keys without the `# go deeper` branch
resolve_keys_shallow(base, data) ==
    Dict([key \in (DOMAIN base.d) \cup (DOMAIN data.d) |->
            IF key \notin DOMAIN data.d THEN base.d[key] ELSE data.d[key]])

RECURSIVE recursively_resolve_keys(_, _)
\* SupportUtilityConfig.recursively_resolve_keys(base, data): `data` after the
\* call, or TypeError where the loop meets a stored value that is no dict
\* under a default that is a dict with keys.
recursively_resolve_keys(base, data) ==
    LET resolved(key) ==
            IF key \notin DOMAIN data.d THEN base.d[key]
            ELSE IF key \notin DOMAIN base.d \/ base.d[key].t # "dict" THEN data.d[key]
            ELSE IF data.d[key].t # "dict"
                 THEN IF DOMAIN base.d[key].d = {} THEN data.d[key] ELSE TypeError
            ELSE recursively_resolve_keys(base.d[key], data.d[key])
        keys == (DOMAIN base.d) \cup (DOMAIN data.d)
    IN IF \E key \in keys : resolved(key) = TypeError
       THEN TypeError
       ELSE Dict([key \in keys |-> resolved(key)])

\* ---- documents by their key paths
RECURSIVE Has(_, _)
Has(doc, path) ==
    IF path = <<>> THEN TRUE
    ELSE /\ doc.t = "dict"
         /\ Head(path) \in DOMAIN doc.d
         /\ Has(doc.d[Head(path)], Tail(path))

RECURSIVE Get(_, _)
Get(doc, path) == IF path = <<>> THEN doc ELSE Get(doc.d[Head(path)], Tail(path))

RECURSIVE Put(_, _, _)
\* data[k1][k2]...[kn] = node
Put(doc, path, node) ==
    IF path = <<>> THEN node
    ELSE LET key == Head(path)
         IN Dict([k \in (DOMAIN doc.d) \cup {key} |->
                    IF k # key THEN doc.d[k]
                    ELSE IF Tail(path) = <<>> THEN node
                    ELSE Put(doc.d[key], Tail(path), node)])

RECURSIVE Del(_, _)
\* del data[k1][k2]...[kn]
Del(doc, path) ==
    LET key == Head(path)
    IN Dict([k \in (DOMAIN doc.d) \ (IF Tail(path) = <<>> THEN {key} ELSE {}) |->
               IF k = key /\ Tail(path) # <<>> THEN Del(doc.d[key], Tail(path)) ELSE doc.d[k]])

RECURSIVE Paths(_)
\* every key path of a document
Paths(doc) ==
    IF doc.t # "dict" THEN {<<>>}
    ELSE {<<>>} \cup UNION {{<<k>> \o p : p \in Paths(doc.d[k])} : k \in DOMAIN doc.d}

\* The key paths at which the stored document differs from document to document.
EditPaths ==
    {<<"contact">>, <<"contact", "channel">>, <<"contact", "embed">>, <<"contact", "embed", "title">>,
     <<"contact", "button">>, <<"contact", "select", "options">>,
     <<"contact", "confirmation", "embed", "footer">>,
     <<"feedback", "active_sessions">>, <<"feedback", "rating">>}

\* A key is missing from the stored document.
doc_delete(path) ==
    /\ su_cache = NoDoc
    /\ Has(stored, path)
    /\ stored' = Del(stored, path)
    /\ UNCHANGED <<threads, bot, contact, itx, su_cache>>
    /\ UNCHANGED inviteVars

\* A value of the stored document is one the cog has written (a channel id, a
\* text, a list with entries), not the default.
doc_write(path) ==
    /\ su_cache = NoDoc
    /\ Has(stored, path)
    /\ Get(stored, path).t = "val"
    /\ Get(stored, path) # Val("stored")
    /\ stored' = Put(stored, path, Val("stored"))
    /\ UNCHANGED <<threads, bot, contact, itx, su_cache>>
    /\ UNCHANGED inviteVars

\* A dict of the stored document has a key the defaults do not have.
doc_extra(path) ==
    /\ su_cache = NoDoc
    /\ Has(stored, path)
    /\ Get(stored, path).t = "dict"
    /\ "emoji" \notin DOMAIN Get(stored, path).d
    /\ stored' = Put(stored, path \o <<"emoji">>, Val("stored"))
    /\ UNCHANGED <<threads, bot, contact, itx, su_cache>>
    /\ UNCHANGED inviteVars

\* SupportUtilityConfig.fetch: the stored document is loaded into the cache
\* and the defaults are resolved into it.
su_fetch ==
    /\ su_cache' = recursively_resolve_keys(su_default_config, stored)
    /\ UNCHANGED <<threads, bot, contact, itx, stored>>
    /\ UNCHANGED inviteVars

\* ------------------------------------------------------------------- Init
\* After cog_load.  The config cache is the document the database holds: any
\* entry an earlier run has written, and none for a guild it has not seen.
\* (a webhook URL is only ever stored for the channel the entry names).
StoredConfigs(g) ==
    {NoEntry} \cup {cfg \in GuildConfigs(g) :
                       /\ cfg.channel \in {Str(0), Str(10 * g + 1)}
                       /\ cfg.webhook # "None" => /\ cfg.channel # Str(0)
                                                  /\ cfg.webhook = WebhookUrl(ToInt(cfg.channel))}

\* The records an earlier run has stored for a user: none, or a guilds map
\* with at least one entry.
StoredUserData ==
    {NoData} \cup UNION {[ks -> Codes \cup {"vanity"}] : ks \in (SUBSET GuildKeys) \ {{}}}

\* The guilds a specification does not look at: nothing stored, nothing there.
Quiet(gs) ==
    /\ \A g \in gs : config[Str(g)] = NoEntry /\ ~vanity[g] /\ ~perms[g]

\* The support-utility cog is not loaded: no panel, no interactions.
InitSupportIdle ==
    /\ threads = [u \in PanelUsers |-> 0]
    /\ bot = [members |-> {}, blocked |-> {}, dm_disabled |-> "NONE"]
    /\ contact = NoContactView(<<>>)
    /\ itx = [i \in Interactions |-> IdleItx]
    /\ stored = NoDoc
    /\ su_cache = NoDoc

\* The invites cog is idle: nothing stored, no guild event.
InitInvitesIdle ==
    /\ config = [k \in GuildKeys |-> NoEntry]
    /\ db_config = config
    /\ invite_cache = [g \in Guilds |-> NoSnap]
    /\ user_data = [u \in Users |-> NoData]
    /\ invites = [g \in Guilds |-> [c \in Codes |-> -1]]
    /\ vanity = [g \in Guilds |-> FALSE]
    /\ members = [g \in Guilds |-> {}]
    /\ hooks = [c \in Channels |-> 0]
    /\ perms = [g \in Guilds |-> FALSE]
    /\ tasks = [t \in Tasks |-> IdleTask]

InitBase ==
    /\ InitSupportIdle
    /\ db_config = config
    /\ invites = [g \in Guilds |-> [c \in Codes |-> -1]]
    /\ hooks = [c \in Channels |-> 0]
    /\ tasks = [t \in Tasks |-> IdleTask]

\* populate_invites: the cache of a guild whose tracking is enabled holds the
\* guild's invites, unless the bot came to the guild after startup.
InitCache ==
    invite_cache \in {ic \in [Guilds -> {NoSnap, [c \in Codes |-> -1]}] :
                         \A g \in Guilds : ic[g] # NoSnap => config[Str(g)] # NoEntry /\ config[Str(g)].enable}

\* ---- the configuration commands, both guilds, one command at a time
InitConfig ==
    /\ config \in [GuildKeys -> UNION {StoredConfigs(g) : g \in Guilds}]
    /\ \A g \in Guilds : config[Str(g)] \in StoredConfigs(g)
    /\ vanity = [g \in Guilds |-> FALSE]
    /\ perms = [g \in Guilds |-> FALSE]
    /\ members = [g \in Guilds |-> {}]
    /\ user_data = [u \in Users |-> NoData]
    /\ invite_cache = [g \in Guilds |-> NoSnap]
    /\ InitBase

Commands(t, g) ==
    \/ invites_config(t, g)
    \/ \E ch \in {0} \cup ChannelsOf(g) : invites_config_channel(t, g, ch)
    \/ \E mode \in Modes : invites_config_enable(t, g, mode)
    \/ invites_config_reset(t, g)
    \/ \E mode \in Modes : inv_store_enable(t, g, mode)

CommandSteps(t) ==
    \/ config_update(t)
    \/ ctx_send(t)
    \/ enable_fetch(t)
    \/ enable_assign(t)

NextConfig ==
    \/ \E g \in Guilds : Commands(1, g)
    \/ CommandSteps(1)
    \/ Finish(1)

SpecConfig == InitConfig /\ [][NextConfig]_vars

\* ---- the listeners of one guild, interleaved at their awaits
TrackGuilds == {1}

InitTrack ==
    /\ config \in [GuildKeys -> UNION {StoredConfigs(g) : g \in Guilds}]
    /\ \A g \in TrackGuilds : config[Str(g)] \in StoredConfigs(g)
    /\ vanity \in [Guilds -> BOOLEAN]
    /\ perms = [g \in Guilds |-> FALSE]
    /\ Quiet(Guilds \ TrackGuilds)
    /\ members = [g \in Guilds |-> {}]
    /\ user_data = [u \in Users |-> NoData]
    /\ InitCache
    /\ InitBase

LogSteps(t) ==
    \/ webhooks_list(t)
    \/ \E ok \in BOOLEAN : create_webhook(t, ok)
    \/ webhook_flush(t)
    \/ send_func(t)

NextTrack ==
    \/ \E t \in Tasks, g \in TrackGuilds :
          \/ \E c \in Codes : on_invite_create(t, g, c)
          \/ \E u \in Users, way \in JoinWays : on_member_join(t, g, u, way)
    \/ \E t \in Tasks :
          \/ invite_create_fetch(t)
          \/ invite_create_assign(t)
          \/ join_fetch(t)
          \/ join_diff(t)
          \/ join_save(t)
          \/ send_func(t)
          \/ Finish(t)

SpecTrack == InitTrack /\ [][NextTrack]_vars

\* ---- members leaving, both guilds, interleaved at their awaits
LeaveUsers == {"alice", "bot"}

InitLeave ==
    /\ config \in [GuildKeys -> UNION {StoredConfigs(g) : g \in Guilds}]
    /\ \A g \in Guilds : config[Str(g)] \in StoredConfigs(g)
    /\ vanity = [g \in Guilds |-> FALSE]
    /\ perms = [g \in Guilds |-> FALSE]
    /\ members = [g \in Guilds |-> Users]
    /\ user_data \in [Users -> StoredUserData]
    /\ \A u \in Users \ {"alice"} : user_data[u] = NoData
    /\ invite_cache = [g \in Guilds |-> NoSnap]
    /\ InitBase

NextLeave ==
    \/ \E t \in Tasks, g \in Guilds, u \in LeaveUsers : on_member_remove(t, g, u)
    \/ \E t \in Tasks :
          \/ remove_read(t)
          \/ remove_user_data(t)
          \/ update_user_data(t)
          \/ remove_invite(t)
          \/ send_func(t)
          \/ Finish(t)

SpecLeave == InitLeave /\ [][NextLeave]_vars

\* ---- the log embeds of one guild: invites are created, each is logged
InitLog ==
    /\ config \in [GuildKeys -> UNION {StoredConfigs(g) : g \in Guilds}]
    /\ \A g \in TrackGuilds : config[Str(g)] \in StoredConfigs(g)
    /\ vanity = [g \in Guilds |-> FALSE]
    /\ perms \in [Guilds -> BOOLEAN]
    /\ Quiet(Guilds \ TrackGuilds)
    /\ members = [g \in Guilds |-> {}]
    /\ user_data = [u \in Users |-> NoData]
    /\ InitCache
    /\ db_config = config
    /\ invites = [g \in Guilds |-> [c \in Codes |-> -1]]
    /\ hooks \in [Channels -> {0, 1}]
    /\ \A g \in Guilds \ TrackGuilds : \A c \in ChannelsOf(g) : hooks[c] = 0
    /\ tasks = [t \in Tasks |-> IdleTask]
    /\ InitSupportIdle

NextLog ==
    \/ \E t \in Tasks, g \in TrackGuilds, c \in Codes : on_invite_create(t, g, c)
    \/ \E t \in Tasks :
          \/ invite_create_fetch(t)
          \/ invite_create_assign(t)
          \/ LogSteps(t)
          \/ Finish(t)

SpecLog == InitLog /\ [][NextLog]_vars

\* ---- the three listeners of one guild under every stored configuration
GateCodes == {"a"}

InitGate ==
    /\ config \in [GuildKeys -> UNION {StoredConfigs(g) : g \in Guilds}]
    /\ \A g \in TrackGuilds : config[Str(g)] \in StoredConfigs(g)
    /\ vanity = [g \in Guilds |-> FALSE]
    /\ perms = [g \in Guilds |-> FALSE]
    /\ Quiet(Guilds \ TrackGuilds)
    /\ members = [g \in Guilds |-> LeaveUsers]
    /\ user_data \in [Users -> {NoData} \cup UNION {[ks -> GateCodes] : ks \in {{"1"}, GuildKeys}}]
    /\ \A u \in Users \ {"alice"} : user_data[u] = NoData
    /\ InitCache
    /\ InitBase

NextGate ==
    \/ \E t \in Tasks, g \in TrackGuilds :
          \/ \E c \in GateCodes : on_invite_create(t, g, c)
          \/ \E u \in LeaveUsers, way \in GateCodes \cup {"-"} : on_member_join(t, g, u, way)
          \/ \E u \in LeaveUsers : on_member_remove(t, g, u)
    \/ \E t \in Tasks :
          \/ invite_create_fetch(t)
          \/ invite_create_assign(t)
          \/ join_fetch(t)
          \/ join_diff(t)
          \/ join_save(t)
          \/ remove_read(t)
          \/ remove_user_data(t)
          \/ update_user_data(t)
          \/ remove_invite(t)
          \/ send_func(t)
          \/ Finish(t)

SpecGate == InitGate /\ [][NextGate]_vars

\* ---- the log channel is changed while invites are created and logged
InitChannel ==
    /\ config \in [GuildKeys -> UNION {StoredConfigs(g) : g \in Guilds}]
    /\ \A g \in TrackGuilds : config[Str(g)] \in StoredConfigs(g) /\ config[Str(g)] # NoEntry
    /\ \A g \in TrackGuilds : config[Str(g)].enable /\ config[Str(g)].store_data
    /\ vanity = [g \in Guilds |-> FALSE]
    /\ perms \in [Guilds -> BOOLEAN]
    /\ Quiet(Guilds \ TrackGuilds)
    /\ members = [g \in Guilds |-> {}]
    /\ user_data = [u \in Users |-> NoData]
    /\ invite_cache = [g \in Guilds |-> IF g \in TrackGuilds THEN [c \in Codes |-> -1] ELSE NoSnap]
    /\ db_config = config
    /\ invites = [g \in Guilds |-> [c \in Codes |-> -1]]
    /\ hooks = [c \in Channels |-> 0]
    /\ tasks = [t \in Tasks |-> IdleTask]
    /\ InitSupportIdle

NextChannel ==
    \/ \E t \in Tasks, g \in TrackGuilds :
          \/ \E ch \in {0} \cup ChannelsOf(g) : invites_config_channel(t, g, ch)
          \/ \E c \in Codes : on_invite_create(t, g, c)
    \/ \E t \in Tasks :
          \/ config_update(t)
          \/ ctx_send(t)
          \/ LogSteps(t)
          \/ Finish(t)

SpecChannel == InitChannel /\ [][NextChannel]_vars

\* ---- the writers of the invite cache of one guild, interleaved at their awaits
CacheUsers == {"alice"}

InitCacheWriters ==
    /\ config \in [GuildKeys -> UNION {StoredConfigs(g) : g \in Guilds}]
    /\ \A g \in TrackGuilds : config[Str(g)] \in StoredConfigs(g) /\ config[Str(g)] # NoEntry
    /\ \A g \in TrackGuilds : config[Str(g)].store_data /\ config[Str(g)].webhook = "None"
    /\ vanity = [g \in Guilds |-> FALSE]
    /\ perms = [g \in Guilds |-> FALSE]
    /\ Quiet(Guilds \ TrackGuilds)
    /\ members = [g \in Guilds |-> {}]
    /\ user_data = [u \in Users |-> NoData]
    /\ InitCache
    /\ InitBase

NextCache ==
    \/ \E t \in Tasks, g \in TrackGuilds :
          \/ \E mode \in Modes : invites_config_enable(t, g, mode)
          \/ \E c \in Codes : on_invite_create(t, g, c)
          \/ \E u \in CacheUsers, way \in Codes : on_member_join(t, g, u, way)
    \/ \E t \in Tasks :
          \/ config_update(t)
          \/ ctx_send(t)
          \/ enable_fetch(t)
          \/ enable_assign(t)
          \/ invite_create_fetch(t)
          \/ invite_create_assign(t)
          \/ join_fetch(t)
          \/ join_diff(t)
          \/ join_save(t)
          \/ send_func(t)
          \/ Finish(t)

SpecCache == InitCacheWriters /\ [][NextCache]_vars

\* ---- the ContactViews of the manager: constructed, stopped, detached
InitView ==
    /\ threads = [u \in PanelUsers |-> 0]
    /\ bot = [members |-> PanelUsers, blocked |-> {}, dm_disabled |-> "NONE"]
    /\ contact \in {NoContactView(options) : options \in {<<>>, PanelOptions}}
    /\ itx = [i \in Interactions |-> IdleItx]
    /\ stored = NoDoc
    /\ su_cache = NoDoc
    /\ InitInvitesIdle

NextView ==
    \/ \E withMessage \in BOOLEAN : ContactView_init(withMessage)
    \/ \E v \in 1..MaxViews : force_stop(v)
    \/ \E v \in 1..MaxViews, ok \in BOOLEAN : message_edit(v, ok)
    \/ manager_detach

SpecView == InitView /\ [][NextView]_vars

\* ---- the store and delete commands, interleaved at their awaits
StoreUsers == {"alice", "bob"}

InitStore ==
    /\ config = [k \in GuildKeys |-> NoEntry]
    /\ vanity = [g \in Guilds |-> FALSE]
    /\ perms = [g \in Guilds |-> FALSE]
    /\ members = [g \in Guilds |-> Users]
    /\ user_data \in [Users -> StoredUserData]
    /\ \A u \in Users \ {"alice"} : user_data[u] = NoData
    /\ invite_cache = [g \in Guilds |-> NoSnap]
    /\ InitSupportIdle
    /\ db_config = config
    /\ invites = [g \in Guilds |-> [c \in Codes |-> IF (g = 1) = (c = "a") THEN 0 ELSE -1]]
    /\ hooks = [c \in Channels |-> 0]
    /\ tasks = [t \in Tasks |-> IdleTask]

NextStore ==
    \/ \E t \in Tasks, g \in Guilds :
          \/ \E u \in StoreUsers : inv_store_get(t, g, u)
          \/ \E u \in StoreUsers : inv_store_del(t, g, u)
          \/ inv_store_clear(t, g)
          \/ \E ig \in Guilds, c \in Codes : invites_delete(t, g, ig, c)
    \/ \E t \in Tasks :
          \/ store_get_read(t)
          \/ store_del_remove(t)
          \/ store_clear_prompt(t)
          \/ \E value \in BOOLEAN : store_clear_wait(t, value)
          \/ \E ok \in BOOLEAN : store_clear_all(t, ok)
          \/ \E ok \in BOOLEAN : invite_delete(t, ok)
          \/ store_send(t)
          \/ Finish(t)

SpecStore == InitStore /\ [][NextStore]_vars

\* ---- the contact panel: interactions interleaved at their awaits
InitPanel ==
    /\ threads = [u \in PanelUsers |-> 0]
    /\ bot = [members |-> PanelUsers, blocked |-> {}, dm_disabled |-> "NONE"]
    /\ contact \in {OneContactView(options) : options \in {<<>>, PanelOptions}}
    /\ itx = [i \in Interactions |-> IdleItx]
    /\ stored = NoDoc
    /\ su_cache = NoDoc
    /\ InitInvitesIdle

\* The users whose standing with the bot changes while the panel is up.
GatedUsers == {"alice"}

PanelSteps(i) ==
    \/ check_defer(i)
    \/ check_find(i)
    \/ check_blocked(i)
    \/ check_refuse(i)
    \/ \E ok \in BOOLEAN : modal_followup(i, ok)
    \/ handle_defer(i)
    \/ handle_menu(i)
    \/ \E k \in DOMAIN PanelOptions : dropdown_select(i, k)
    \/ dropdown_callback(i)
    \/ view_timeout(i)
    \/ handle_resume(i)
    \/ \E cancelled \in BOOLEAN : manager_create(i, cancelled)
    \/ thread_ready(i)
    \/ thread_send(i)
    \/ itx_finish(i)

NextPanel ==
    \/ \E i \in Interactions, u \in PanelUsers : contact_press(i, u)
    \/ \E i \in Interactions, u \in GatedUsers : modal_submit(i, u)
    \/ \E i \in Interactions : PanelSteps(i)
    \/ \E u \in GatedUsers : bot_block(u)
    \/ \E u \in GatedUsers : bot_member(u)
    \/ \E v \in DMDisabled : bot_disable(v)
    \/ \E u \in PanelUsers : thread_close(u)

SpecPanel == InitPanel /\ [][NextPanel]_vars

\* ---- the support-utility config: a stored document is loaded
InitMerge ==
    /\ stored \in {su_default_config, EmptyDict}
    /\ su_cache = NoDoc
    /\ threads = [u \in PanelUsers |-> 0]
    /\ bot = [members |-> {}, blocked |-> {}, dm_disabled |-> "NONE"]
    /\ contact = NoContactView(<<>>)
    /\ itx = [i \in Interactions |-> IdleItx]
    /\ InitInvitesIdle

NextMerge ==
    \/ \E path \in EditPaths : doc_delete(path)
    \/ \E path \in EditPaths : doc_write(path)
    \/ \E path \in EditPaths : doc_extra(path)
    \/ su_fetch

SpecMerge == InitMerge /\ [][NextMerge]_vars

\* ------------------------------------------------------------------ claims
DeclaredDefaults == [channel |-> "0", webhook |-> "None", enable |-> FALSE, store_data |-> TRUE]

\* A step in which slot t starts a handler of the given kind for guild g.
Starts(t, kind, g) ==
    /\ tasks[t].kind = "idle"
    /\ tasks'[t].kind = kind
    /\ tasks'[t].g = g

\* C1: guild_config(g) of a guild without an entry returns the declared
\* defaults and stores them under str(g); with an entry it returns the entry
\* as it stands and leaves the cache alone; and an entry, once there, changes
\* only by a command that edits it, never by a lookup.
C1_ConfigDefaulting ==
    [][\A t \in Tasks, g \in Guilds :
          /\ Starts(t, "config", g) /\ config[Str(g)] = NoEntry
                => /\ tasks'[t].shown = DeclaredDefaults
                   /\ config' = [config EXCEPT ![Str(g)] = DeclaredDefaults]
          /\ Starts(t, "config", g) /\ config[Str(g)] # NoEntry
                => /\ tasks'[t].shown = config[Str(g)]
                   /\ config' = config
          /\ config[Str(g)] # NoEntry /\ config'[Str(g)] # config[Str(g)]
                => \E s \in Tasks : Starts(s, tasks'[s].kind, g) /\ tasks'[s].edited]_vars

\* `invite config` has just shown the defaults of a guild the stored document
\* does not know, and the cache now holds them.
C1_Witness ==
    \E t \in Tasks, g \in Guilds :
        /\ tasks[t].kind = "config"
        /\ tasks[t].g = g
        /\ tasks[t].shown = DeclaredDefaults
        /\ db_config[Str(g)] = NoEntry
        /\ config[Str(g)] = DeclaredDefaults

\* C7: when `invite store enable <mode>` has completed, the guild's
\* store_data flag equals <mode>.
C7_StoreEnableSetsStoreData ==
    \A t \in Tasks :
        tasks[t].kind = "store" /\ tasks[t].edited /\ tasks[t].pc = "done"
            => config[Str(tasks[t].g)].store_data = Bool(tasks[t].mode)

\* State half of C8: a command that has edited the config cache has flushed it once, after
\* the edit (the database holds the edited cache) and before its reply; a
\* command called without argument never flushes and changes no config value.
C8_FlushOrder ==
    \A t \in Tasks :
        tasks[t].kind \in CommandKinds =>
            /\ tasks[t].edited /\ tasks[t].pc = "flush" => tasks[t].nflush = 0 /\ ~tasks[t].replied
            /\ tasks[t].edited /\ tasks[t].pc = "reply"
                  => tasks[t].nflush = 1 /\ ~tasks[t].replied /\ db_config = config
            /\ tasks[t].edited /\ tasks[t].replied => tasks[t].nflush = 1 /\ db_config = config
            /\ ~tasks[t].edited => tasks[t].nflush = 0

C8_QueryChangesNothing ==
    \A t \in Tasks :
        tasks'[t].kind \in CommandKinds /\ ~tasks'[t].edited /\ tasks'[t] # tasks[t]
            => /\ db_config' = db_config
               /\ \A g \in Guilds : guild_config(config', g) = guild_config(config, g)

\* C8: every mutating configuration command flushes the cache to the database
\* after its edit and before its reply; the query form of a command changes no
\* config value and never flushes.
C8_FlushAfterEditBeforeReply == []C8_FlushOrder /\ [][C8_QueryChangesNothing]_vars

\* A command that changed a config value has replied after its one flush.
C8_Witness ==
    \E t \in Tasks :
        /\ tasks[t].edited
        /\ tasks[t].replied
        /\ tasks[t].nflush = 1
        /\ config[Str(tasks[t].g)] # DeclaredDefaults

\* The step in which a coroutine leaves position pc.
Leaves(t, kind, pc) ==
    /\ tasks[t].kind = kind
    /\ tasks[t].pc = pc
    /\ tasks'[t].pc # pc

\* new is old with one more use of invite c, and nothing else changed.
OneIncrement(old, new, c) ==
    /\ old # NoSnap
    /\ old[c] >= 0
    /\ new[c] = old[c] + 1
    /\ \A d \in Codes \ {c} : new[d] = old[d]

\* C2: when the cached snapshot and the fetched list differ by exactly one
\* invite's use count, raised by one, the candidates of the join are exactly
\* that invite.
C2_InferenceOneIncrement ==
    [][\A t \in Tasks, c \in Codes :
          Leaves(t, "join", "j_diff") /\ OneIncrement(invite_cache[tasks[t].g], tasks[t].snap, c)
              => tasks'[t].pred = {c}]_vars

\* A join has fetched a list that differs from the cache by one use of one
\* invite, with another invite in the guild besides.
C2_Witness ==
    \E t \in Tasks, c \in Codes :
        /\ tasks[t].kind = "join"
        /\ tasks[t].pc = "j_diff"
        /\ OneIncrement(invite_cache[tasks[t].g], tasks[t].snap, c)
        /\ \E d \in Codes \ {c} : tasks[t].snap[d] >= 0

\* A join handler that ran its inference (member not a bot, tracking enabled,
\* log channel found) and has finished.
JoinRan(t) ==
    /\ tasks[t].kind = "join"
    /\ tasks[t].pc = "done"
    /\ tasks[t].chan # 0

\* C3: after a join with exactly one candidate in a guild that stores data,
\* the member's record holds that invite under the guild; in a guild that does
\* not store data no record is persisted.
C3_PersistOnSingleCandidate ==
    \A t \in Tasks :
        JoinRan(t) =>
            LET u == tasks[t].u
                key == Str(tasks[t].g)
                store == config[key].store_data
            IN /\ Cardinality(tasks[t].pred) = 1 /\ store
                     => /\ tasks[t].saved
                        /\ user_data[u] # NoData
                        /\ key \in DOMAIN user_data[u]
                        /\ user_data[u][key] \in tasks[t].pred
               /\ ~store => ~tasks[t].saved /\ user_data[u] = NoData

\* A finished join whose single candidate, an invite code, is on record.
C3_Witness ==
    \E t \in Tasks :
        /\ JoinRan(t)
        /\ tasks[t].saved
        /\ user_data[tasks[t].u] # NoData
        /\ user_data[tasks[t].u][Str(tasks[t].g)] \in Codes

\* C4: a join with no candidate or with several sends its embed with the
\* warning for that case and persists nothing; with one candidate the embed
\* has no warning.
C4_AmbiguousJoinWarns ==
    \A t \in Tasks :
        JoinRan(t) =>
            /\ tasks[t].nsent = 1
            /\ tasks[t].pred = {}
                  => tasks[t].warn = "unresolved" /\ ~tasks[t].saved /\ user_data[tasks[t].u] = NoData
            /\ Cardinality(tasks[t].pred) > 1
                  => tasks[t].warn = "multiple" /\ ~tasks[t].saved /\ user_data[tasks[t].u] = NoData
            /\ Cardinality(tasks[t].pred) = 1 => tasks[t].warn = "none"

\* A finished join with two candidates in a guild that stores data.
C4_Witness ==
    \E t \in Tasks :
        /\ JoinRan(t)
        /\ Cardinality(tasks[t].pred) = 2
        /\ tasks[t].warn = "multiple"
        /\ config[Str(tasks[t].g)].store_data

\* C10: once a join or an invite creation has been handled in a guild whose
\* tracking is enabled, the cached snapshot is the guild's current invites.
C10_CacheReflectsInvites ==
    \A t \in Tasks :
        /\ tasks[t].kind \in {"join", "invite_create"}
        /\ tasks[t].pc = "done"
        /\ ~IsBot(tasks[t].u)
        /\ config[Str(tasks[t].g)].enable
        /\ invite_cache[tasks[t].g] # NoSnap
        /\ \A s \in Tasks \ {t} : tasks[s].kind = "idle"
        => invite_cache[tasks[t].g] = invites[tasks[t].g]

\* The record without the entry of key, every other entry as it was.
Without(user, key) == [k \in (DOMAIN user) \ {key} |-> user[k]]

\* The leave handler of t reads a record that has an entry for its guild.
ReadsEntry(t) ==
    /\ Leaves(t, "leave", "l_read")
    /\ user_data[tasks[t].u] # NoData
    /\ Str(tasks[t].g) \in DOMAIN user_data[tasks[t].u]

C5_NoEmptyRecord == \A u \in Users : user_data[u] # NoData => DOMAIN user_data[u] # {}

C5_LeaveStep ==
    \A t \in Tasks :
        LET u == tasks[t].u
            key == Str(tasks[t].g)
        IN /\ ReadsEntry(t)
                 => tasks'[t].pc = IF \/ DOMAIN Without(user_data[u], key) = {}
                                      \/ ~config[key].store_data
                                   THEN "l_remove" ELSE "l_update"
           /\ Leaves(t, "leave", "l_remove") => user_data'[u] = NoData
           /\ Leaves(t, "leave", "l_update")
                 => /\ user_data'[u] # NoData
                    /\ key \notin DOMAIN user_data'[u]

\* C5: a leave of a user whose record has an entry for the guild removes that
\* entry; the whole record is deleted when no entry remains or the guild does
\* not store data; no stored record ever has an empty guilds map.
C5_LeaveRemovesEntry == []C5_NoEmptyRecord /\ [][C5_LeaveStep]_vars

\* A leave handler has deleted the record of a user who is still a member of
\* the other guild, in a guild that stores data: the entry was the only one.
C5_Witness ==
    \E t \in Tasks :
        /\ tasks[t].kind = "leave"
        /\ tasks[t].pc = "done"
        /\ tasks[t].invdata # "-"
        /\ config[Str(tasks[t].g)].store_data
        /\ user_data[tasks[t].u] = NoData
        /\ \A g \in Guilds \ {tasks[t].g} : tasks[t].u \in members[g]

\* Step half of C6: a leave from a guild that stores data, of a user whose record has
\* entries for that guild and for another, writes back the record it read
\* without that guild's entry and with every other entry as read, and touches
\* no other user's record; a leave of a user whose record has no entry for the
\* guild leaves every record unchanged.
C6_LeaveStep ==
    \A t \in Tasks :
        LET u == tasks[t].u
            key == Str(tasks[t].g)
        IN /\ ReadsEntry(t) /\ config[key].store_data /\ DOMAIN Without(user_data[u], key) # {}
                 => /\ tasks'[t].pc = "l_update"
                    /\ tasks'[t].data = Without(user_data[u], key)
           /\ Leaves(t, "leave", "l_update")
                 => user_data' = [user_data EXCEPT ![u] = tasks[t].data]
           /\ Leaves(t, "leave", "l_read") /\ ~ReadsEntry(t)
                 => tasks'[t].invdata = "-" /\ tasks'[t].pc \notin {"l_remove", "l_update"}
           /\ tasks'[t].kind = "leave" /\ tasks'[t].invdata = "-" /\ tasks'[t] # tasks[t]
                 => user_data' = user_data

\* C6: a leave from one guild removes only that guild's entry of the record
\* the handler read; the user's entries for other guilds and every other
\* user's record stay as they were.
C6_LeaveKeepsOtherGuilds == [][C6_LeaveStep]_vars

\* A leave handler has written back a record: its guild's entry is gone, the
\* other guild's entry is there, and the user is still in the other guild.
C6_Witness ==
    \E t \in Tasks :
        /\ tasks[t].kind = "leave"
        /\ tasks[t].pc = "done"
        /\ tasks[t].invdata # "-"
        /\ user_data[tasks[t].u] # NoData
        /\ Str(tasks[t].g) \notin DOMAIN user_data[tasks[t].u]
        /\ \A g \in Guilds \ {tasks[t].g} :
              tasks[t].u \in members[g] /\ Str(g) \in DOMAIN user_data[tasks[t].u]

\* A listener that went into send_log_embed and has finished.
LogDone(t) ==
    /\ tasks[t].pc = "done"
    /\ tasks[t].chan # 0

\* The step in which a coroutine leaves a position of send_log_embed.
LeavesPc(t, pc) ==
    /\ tasks[t].pc = pc
    /\ tasks'[t].pc # pc

\* C9, every fallback logged: whenever the embed went through the channel because no
\* webhook could be had, the error was logged.
C9_FallbackLogsError ==
    \A t \in Tasks : LogDone(t) /\ tasks[t].via = "channel" => tasks[t].logged

C9_SentOnce ==
    \A t \in Tasks :
        LET key == Str(tasks[t].g)
        IN /\ tasks[t].nsent <= 1
           /\ tasks[t].pc \in {"wh_list", "wh_create", "wh_flush", "send"} => tasks[t].nsent = 0
           /\ LogDone(t)
                 => /\ tasks[t].nsent = 1
                    /\ tasks[t].via = "channel"
                          => /\ tasks[t].hook = "None"
                             /\ tasks[t].nflush = 0
                             /\ ~tasks[t].created
                             /\ tasks[t].logged <=> perms[tasks[t].g]
                    /\ tasks[t].via = "webhook"
                          => /\ tasks[t].hook # "None"
                             /\ ~tasks[t].logged
                             /\ tasks[t].nflush <= 1
                             /\ tasks[t].nflush = 1
                                   => /\ config[key].webhook = tasks[t].hook
                                      /\ db_config[key].webhook = tasks[t].hook

C9_LogStep ==
    \A t \in Tasks :
        LET key == Str(tasks[t].g)
        IN /\ (LeavesPc(t, "wh_list") \/ LeavesPc(t, "wh_create")) /\ tasks'[t].pc # "wh_create"
                 => IF tasks'[t].hook # "None"
                    THEN /\ tasks'[t].pc = "wh_flush"
                         /\ config'[key].webhook = tasks'[t].hook
                    ELSE /\ tasks'[t].pc = "send"
                         /\ config' = config
                         /\ db_config' = db_config
           /\ LeavesPc(t, "wh_flush") => db_config' = config /\ tasks'[t].pc = "send"
           /\ LeavesPc(t, "send")
                 => /\ config' = config
                    /\ db_config' = db_config
                    /\ tasks'[t].via = IF tasks[t].hook = "None" THEN "channel" ELSE "webhook"

\* C9: without a stored URL and without a webhook to be had, the
\* embed goes through the channel exactly once, the call stores no URL and
\* does not flush, and the error is logged when create_webhook raised but not
\* when the bot lacks manage_webhooks; with a webhook obtained, its URL is
\* stored, flushed, and the embed goes through the webhook exactly once.
C9_WebhookFallback == []C9_SentOnce /\ [][C9_LogStep]_vars

\* create_webhook raised, the error was logged, the embed went through the channel.
C9_Witness ==
    \E t \in Tasks :
        /\ LogDone(t)
        /\ tasks[t].via = "channel"
        /\ tasks[t].logged
        /\ tasks[t].nsent = 1
        /\ config[Str(tasks[t].g)].webhook = "None"

\* ---- the contact panel
HandlePcs == {"h_defer", "h_menu", "h_wait", "h_resume", "h_create", "h_ready", "h_send"}

Disabled == bot.dm_disabled \in {"NEW_THREADS", "ALL_THREADS"}

\* What each step of interaction_check decides, against the state it reads.
C11_CheckStep ==
    \A i \in Interactions :
        LET u == itx[i].user
        IN /\ itx[i].pc = "idle" /\ itx'[i].kind = "contact"
                 => itx'[i].pc = IF itx'[i].user \in bot.members THEN "c_find" ELSE "c_defer"
           /\ itx[i].pc = "c_find" /\ itx'[i].pc # "c_find"
                 => IF threads[u] > 0
                    THEN itx'[i].pc = "c_refuse" /\ itx'[i].reason = "exists"
                    ELSE itx'[i].pc = "c_blocked"
           /\ itx[i].pc = "c_blocked" /\ itx'[i].pc # "c_blocked"
                 => IF u \in bot.blocked
                    THEN itx'[i].pc = "c_refuse" /\ itx'[i].reason = "blocked"
                    ELSE IF Disabled
                    THEN itx'[i].pc = "c_refuse" /\ itx'[i].reason = "disabled"
                    ELSE itx'[i].pc = "h_defer" /\ itx'[i].passed
           /\ ~itx[i].created /\ itx'[i].created => itx[i].passed /\ itx[i].reason = "none"
           /\ \A v \in PanelUsers :
                 threads'[v] > threads[v] => \E j \in Interactions : itx[j].user = v /\ itx[j].passed

\* Who got past the check, and what the others were told.
C11_Gate ==
    \A i \in Interactions :
        /\ itx[i].pc \in HandlePcs \/ itx[i].created => itx[i].passed
        /\ itx[i].passed => itx[i].reason = "none" /\ itx[i].reply = "none"
        /\ ~itx[i].passed => ~itx[i].created
        /\ itx[i].kind = "contact" /\ itx[i].pc = "done" /\ ~itx[i].passed
              => \/ itx[i].reason = "none" /\ itx[i].reply = "defer"
                 \/ itx[i].reason # "none" /\ itx[i].reply = "ephemeral"

\* C11: manager.create is reached only by an interaction whose user was, when
\* each test of interaction_check ran, a member of the main guild, without a
\* thread, not blocked, and with dm_disabled neither NEW_THREADS nor
\* ALL_THREADS; every other interaction creates nothing and is answered by an
\* ephemeral refusal (a bare defer for a non-member); an existing thread is
\* reported before a block, a block before the disabled flag.
C11_ContactGating == []C11_Gate /\ [][C11_CheckStep]_vars

\* One press has made a thread; the same user's next press was refused with
\* "a thread for you already exists" although the user is blocked by now.
C11_Witness ==
    \E i, j \in Interactions :
        /\ i # j
        /\ itx[i].created /\ ~itx[i].cancelled
        /\ itx[j].user = itx[i].user
        /\ itx[j].reason = "exists" /\ itx[j].reply = "ephemeral"
        /\ itx[j].user \in bot.blocked

\* What the thread's category is for each label of PanelOptions: "help" names
\* a category that exists, "sales" one that does not, "other" none at all.
C12_Dropdown ==
    \A i \in Interactions :
        /\ itx[i].created /\ contact.select_options = <<>>
              => itx[i].inputs = "-" /\ itx[i].createdCat = 0
        /\ itx[i].created /\ contact.select_options # <<>>
              => \/ itx[i].inputs = "help" /\ itx[i].createdCat = 5
                 \/ itx[i].inputs = "sales" /\ itx[i].createdCat = 0
        /\ itx[i].kind = "contact" /\ itx[i].raised # "none"
              => itx[i].raised = "ValueError" /\ itx[i].inputs = "other" /\ ~itx[i].created

C12_ResumeStep ==
    \A i \in Interactions :
        /\ itx[i].pc = "h_resume" /\ itx'[i].pc # "h_resume"
              => /\ itx[i].inputs = "-" => itx'[i].pc = "done" /\ itx'[i].raised = "none"
                 /\ itx[i].inputs = "other" => itx'[i].pc = "done" /\ itx'[i].raised = "ValueError"
                 /\ itx[i].inputs \in {"help", "sales"} => itx'[i].pc = "h_create"
        /\ itx[i].pc = "h_defer" /\ itx'[i].pc # "h_defer"
              => itx'[i].pc = IF contact.select_options = <<>> THEN "h_create" ELSE "h_menu"
        /\ ~itx[i].created /\ itx'[i].created => itx[i].pc = "h_create"

\* C12: with options configured, manager.create is reached only with an option
\* in view.inputs; a dropdown that ended without one ends the handler without
\* a thread; an option without a category id raises ValueError and no thread
\* is made; a category id that resolves to no channel gives a thread without
\* category; without options the thread is made at once, without category.
C12_DropdownBeforeThread == []C12_Dropdown /\ [][C12_ResumeStep]_vars

\* One interaction ended in the ValueError of an option without category id,
\* another made its thread without category for a category id that resolves
\* to no channel.
C12_Witness ==
    \E i, j \in Interactions :
        /\ itx[i].raised = "ValueError" /\ itx[i].inputs = "other" /\ itx[i].pc = "done"
        /\ itx[j].created /\ itx[j].inputs = "sales" /\ itx[j].createdCat = 0 /\ itx[j].logged

\* ---- the support-utility config
\* C13: after fetch every key path of the defaults is in the cache, every
\* value of the stored document is in the cache as stored (lists and keys the
\* defaults do not have included), every key path the stored document lacks
\* holds the default, and resolving the defaults a second time changes nothing.
C13_MergeKeepsStored ==
    su_cache # NoDoc =>
        /\ su_cache # TypeError
        /\ \A path \in Paths(su_default_config) :
              /\ Has(su_cache, path)
              /\ ~Has(stored, path) => Get(su_cache, path) = Get(su_default_config, path)
        /\ \A path \in Paths(stored) :
              /\ Has(su_cache, path)
              /\ Get(stored, path).t = "val" => Get(su_cache, path) = Get(stored, path)
        /\ recursively_resolve_keys(su_default_config, su_cache) = su_cache

\* A document was loaded that has contact.embed without its title, a button
\* with a key the defaults lack, and a list of active sessions of its own.
C13_Witness ==
    /\ su_cache # NoDoc
    /\ Has(stored, <<"contact", "embed">>)
    /\ ~Has(stored, <<"contact", "embed", "title">>)
    /\ Has(stored, <<"contact", "button", "emoji">>)
    /\ Has(stored, <<"feedback", "active_sessions">>)
    /\ Get(stored, <<"feedback", "active_sessions">>) = Val("stored")
    /\ Get(su_cache, <<"contact", "embed", "title">>) = Val("Contact Staff")

\* ---- the store and delete commands
C14_Failed ==
    \A t \in Tasks :
        /\ tasks[t].raised # "none" => ~tasks[t].replied /\ tasks[t].pc = "done"
        /\ tasks[t].kind \in {"store_get", "store_del", "store_clear"}
              => tasks[t].raised \in {"none", "BadArgument"}

C14_FailStep ==
    \A t \in Tasks :
        LET u == tasks[t].u
            key == Str(tasks[t].g)
        IN /\ tasks[t].raised = "none" /\ tasks'[t].raised # "none"
                 => user_data' = user_data /\ invites' = invites
           /\ tasks[t].pc = "sg_read" /\ tasks'[t].pc # "sg_read"
                 => (tasks'[t].raised = "BadArgument"
                        <=> (user_data[u] = NoData \/ key \notin DOMAIN user_data[u]))
           /\ tasks[t].pc = "sd_remove" /\ tasks'[t].pc # "sd_remove"
                 => (tasks'[t].raised = "BadArgument" <=> user_data[u] = NoData)
           /\ tasks[t].kind = "idle" /\ tasks'[t].kind = "inv_delete"
                 => (tasks'[t].raised = "BadArgument" <=> tasks'[t].chan # tasks'[t].g)
           /\ tasks[t].pc = "id_delete" /\ tasks'[t].pc # "id_delete"
                 => /\ tasks'[t].raised # "none" <=> invites' = invites
                    /\ invites[tasks[t].g][tasks[t].code] >= 0
                          => tasks'[t].raised \in {"none", "BadArgument"}
           /\ tasks[t].pc = "sc_clear" /\ tasks'[t].pc # "sc_clear"
                 => (tasks'[t].raised = "BadArgument" <=> tasks'[t].pc = "done")

\* C14: `store get` and `store delete` for a user without stored data raise
\* BadArgument and remove nothing; `invite delete` of another guild's invite
\* raises BadArgument and deletes nothing; a Forbidden on the deletion and a
\* failure of clear_all_data raise BadArgument; a command that raised has sent
\* no success reply.
C14_FailuresAreBadArgument == []C14_Failed /\ [][C14_FailStep]_vars

\* `store delete` for bob, who has no record, has raised, while the invite of
\* the other guild that `invite delete` was given is still there.
C14_Witness ==
    \E t, s \in Tasks :
        /\ tasks[t].kind = "store_del" /\ tasks[t].raised = "BadArgument" /\ user_data[tasks[t].u] = NoData
        /\ tasks[s].kind = "inv_delete" /\ tasks[s].raised = "BadArgument"
        /\ tasks[s].chan # tasks[s].g
        /\ invites[tasks[s].chan][tasks[s].code] >= 0
        /\ user_data["alice"] # NoData

\* An exception in a callback ends that interaction's coroutine and nothing else.
C15_ErrorStep ==
    \A i \in Interactions :
        itx[i].raised = "none" /\ itx'[i].raised # "none"
            => /\ itx'[i].logged /\ itx'[i].pc = "done"
               /\ contact' = contact
               /\ threads' = threads
               /\ \A j \in Interactions \ {i} : itx'[j] = itx[j]

C15_Listening ==
    /\ contact.listening
    /\ \A i \in Interactions : itx[i].raised # "none" => itx[i].logged /\ itx[i].pc = "done"

\* C15: an exception raised in a view item's callback or in a modal's
\* on_submit is logged by on_error and goes no further: the interaction's
\* coroutine ends, no other interaction is disturbed, and the contact view
\* keeps listening.
C15_ErrorsSwallowed == []C15_Listening /\ [][C15_ErrorStep]_vars

\* After a ValueError in the button's callback and with its record still
\* there, a press on the same view went through the check and made a thread.
C15_Witness ==
    \E i, j \in Interactions :
        /\ itx[i].raised = "ValueError" /\ itx[i].logged
        /\ itx[j].late /\ itx[j].passed /\ itx[j].created

\* ---- joins racing on the cached snapshot
\* A join handler that has compared the fetched list with the cache.
Compared(t) ==
    /\ tasks[t].kind = "join"
    /\ tasks[t].chan # 0
    /\ tasks[t].pc \notin {"j_fetch", "j_diff"}

\* A join that started on a cache equal to the guild's invites and compared
\* before any other join or cache assignment came in between is attributed to
\* the invite it used.
C16_AloneStep ==
    \A t \in Tasks :
        /\ tasks[t].kind = "join" /\ tasks[t].pc = "j_diff" /\ tasks'[t].pc # "j_diff"
        /\ tasks[t].alone = "alone"
        => tasks'[t].pred = {tasks[t].way}

\* C16: two join handlers of one guild, interleaved at their awaits, compare
\* against a cache the other one has made stale or has already refreshed, and
\* neither join is attributed to exactly the invite it used; a join that no
\* other handler interleaves with, on an accurate cache, is attributed exactly.
C16_JoinsRace == [][C16_AloneStep]_vars

\* Two joins of the guild by two invites have both compared: the one that
\* started on an accurate cache and was then raced, and the other, are both
\* attributed to something else than the invite used.
C16_Witness ==
    \E t, s \in Tasks :
        /\ t # s
        /\ Compared(t) /\ Compared(s)
        /\ tasks[t].g = tasks[s].g
        /\ tasks[t].alone = "raced"
        /\ tasks[t].way \in Codes /\ tasks[s].way \in Codes /\ tasks[t].way # tasks[s].way
        /\ tasks[t].pred # {tasks[t].way}
        /\ tasks[s].pred # {tasks[s].way}

\* ---- `invite config reset`
\* What `invite config` shows of an entry of guild g.
Shown(g, cfg) ==
    [channel |-> IF get_channel(g, ToInt(cfg.channel)) = 0 THEN "None" ELSE cfg.channel,
     enabled |-> cfg.enable,
     webhook |-> cfg.webhook]

C17_Reset ==
    \A t \in Tasks :
        tasks[t].kind = "reset"
            => /\ config[Str(tasks[t].g)] = DeclaredDefaults
               /\ tasks[t].shown = Shown(tasks[t].g, config[Str(tasks[t].g)])
               /\ tasks[t].pc \in {"reply", "done"}
                     => tasks[t].nflush = 1 /\ db_config[Str(tasks[t].g)] = DeclaredDefaults

C17_ResetStep ==
    \A t \in Tasks, g \in Guilds :
        Starts(t, "reset", g)
            => /\ config'[Str(g)] = DeclaredDefaults
               /\ \A h \in Guilds \ {g} : config'[Str(h)] = config[Str(h)]
               /\ \A h \in Guilds : config'[Str(h)] = NoEntry => guild_config(config', h) = DeclaredDefaults

\* C17: after `invite config reset` the guild's entry is the declared
\* defaults in every field, as the reply says (Channel None, Enabled False,
\* Webhook None), and the database holds it; the entries of other guilds are
\* as before, and a guild that has no entry still gets the declared defaults.
C17_ResetToDefaults == []C17_Reset /\ [][C17_ResetStep]_vars

\* A reset has replied; the database held a channel, a webhook and tracking
\* enabled for the guild before, and the other guild has an entry that is
\* not the defaults.
C17_Witness ==
    \E t \in Tasks :
        /\ tasks[t].kind = "reset" /\ tasks[t].replied
        /\ config[Str(tasks[t].g)] = DeclaredDefaults
        /\ db_config[Str(tasks[t].g)] = DeclaredDefaults
        /\ \E h \in Guilds \ {tasks[t].g} :
              config[Str(h)] # NoEntry /\ config[Str(h)] # DeclaredDefaults /\ config[Str(h)].webhook # "None"

\* ---- the gates of the three listeners
Listeners == {"invite_create", "join", "leave"}

\* The guild's flag and log channel as a handler that starts now finds them.
Enabled(g) == guild_config(config, g).enable

LogChannel(g) == get_channel(g, ToInt(guild_config(config, g).channel))

\* A handler that was gated, by the flag, by a bot account or by a log
\* channel that does not resolve, has sent nothing; a gated join has saved
\* nothing and predicted nothing.
C18_Silent ==
    \A t \in Tasks :
        tasks[t].kind \in Listeners
            => IF IsBot(tasks[t].u)
               THEN tasks[t].pc = "done" /\ tasks[t].nsent = 0 /\ ~tasks[t].saved
               ELSE LET cfg == ConfigOf(t)
                        ch == get_channel(tasks[t].g, ToInt(cfg.channel))
                    IN /\ (~cfg.enable \/ ch = 0)
                          => /\ tasks[t].nsent = 0
                             /\ tasks[t].pc \notin {"send", "wh_list", "wh_create", "wh_flush", "l_invite"}
                       /\ ~cfg.enable => tasks[t].pc = "done"
                       /\ (tasks[t].kind = "join" /\ ch = 0)
                          => tasks[t].pc = "done" /\ ~tasks[t].saved /\ tasks[t].pred = {}

C18_GateStep ==
    \A t \in Tasks, g \in Guilds :
        /\ \* the flag is false, or the account is a bot: the handler is over
           (\E k \in Listeners : Starts(t, k, g)) /\ (~Enabled(g) \/ IsBot(tasks'[t].u))
              => /\ tasks'[t].pc = "done"
                 /\ invite_cache' = invite_cache
                 /\ user_data' = user_data
        /\ \* the flag is true, no log channel: the invite enters the cache
           (Starts(t, "invite_create", g) /\ Enabled(g) /\ LogChannel(g) = 0)
              => IF invite_cache[g] = NoSnap
                 THEN tasks'[t].pc = "ic_fetch"
                 ELSE invite_cache'[g][tasks'[t].code] = 0 /\ tasks'[t].pc = "done"
        /\ (Leaves(t, "invite_create", "ic_assign") /\ tasks[t].g = g /\ LogChannel(g) = 0)
              => invite_cache'[g] = tasks[t].snap /\ tasks'[t].pc = "done"
        /\ \* the flag is true, no log channel: the join ends before it fetches
           (Starts(t, "join", g) /\ LogChannel(g) = 0)
              => /\ tasks'[t].pc = "done"
                 /\ invite_cache' = invite_cache
                 /\ user_data' = user_data
        /\ \* the flag is true: the leave reads the record, whatever the channel
           (Starts(t, "leave", g) /\ Enabled(g) /\ ~IsBot(tasks'[t].u))
              => tasks'[t].pc = "l_read"
        /\ (Leaves(t, "leave", "l_read") /\ tasks[t].g = g /\ LogChannel(g) = 0)
              => LET user == user_data[tasks[t].u]
                 IN IF user # NoData /\ Str(g) \in DOMAIN user
                    THEN tasks'[t].pc \in {"l_remove", "l_update"}
                    ELSE tasks'[t].pc = "done"
        /\ (Leaves(t, "leave", "l_remove") /\ tasks[t].g = g /\ LogChannel(g) = 0)
              => user_data'[tasks[t].u] = NoData /\ tasks'[t].pc = "done"
        /\ (Leaves(t, "leave", "l_update") /\ tasks[t].g = g /\ LogChannel(g) = 0)
              => /\ user_data'[tasks[t].u] = tasks[t].data
                 /\ Str(g) \notin DOMAIN user_data'[tasks[t].u]
                 /\ tasks'[t].pc = "done"

C19_ChannelStep ==
    \A t \in Tasks, g \in Guilds :
        (Starts(t, "channel", g) /\ tasks'[t].edited)
            => LET old == guild_config(config, g)
                   new == config'[Str(g)]
               IN /\ ToInt(new.channel) \in ChannelsOf(g)
                  /\ new.webhook = "None"
                  /\ new.enable = old.enable
                  /\ new.store_data = old.store_data

\* A log embed that starts goes to the channel the entry names, through the
\* stored URL of a webhook of that channel or, with none stored, through a
\* webhook looked up or created in that channel or through the channel.
C19_LogStep ==
    \A t \in Tasks, g \in Guilds :
        (Starts(t, "invite_create", g) /\ tasks'[t].pc # "done")
            => /\ tasks'[t].chan = get_channel(g, ToInt(config'[Str(g)].channel))
               /\ tasks'[t].hook \in {"None", WebhookUrl(tasks'[t].chan)}

\* C19: `invite config channel <channel>` sets the guild's channel and clears
\* its webhook, leaving enable and store_data as they were; the next log embed
\* of the guild never goes through a webhook URL of the previous channel, but
\* through a webhook looked up or created in the new channel, or through the
\* new channel itself.
C19_ChannelClearsWebhook == [][C19_ChannelStep]_vars /\ [][C19_LogStep]_vars

\* The part of C19 about the command's own edit.
C19_ChannelEdit == [][C19_ChannelStep]_vars

\* ---- the invite cache under interleaving
\* Invite c of guild g is in the guild's cached snapshot.
InCache(ic, g, c) == ic[g] # NoSnap /\ ic[g][c] >= 0

\* The handlers of on_invite_create that are past their write of the cache.
Added(t) ==
    /\ tasks[t].kind = "invite_create"
    /\ tasks[t].pc \notin {"ic_fetch", "ic_assign"}

C20_KeepStep ==
    \A t \in Tasks :
        (/\ Added(t)
         /\ InCache(invite_cache, tasks[t].g, tasks[t].code)
         /\ invites'[tasks[t].g][tasks[t].code] >= 0)
            => InCache(invite_cache', tasks[t].g, tasks[t].code)

\* C20: once on_invite_create has put a created invite in the guild's cached
\* snapshot, the invite stays in the cache for as long as it exists in the
\* guild, whatever other handler or command writes the cache in between:
\* neither `invite config enable` nor an on_invite_create that fetched the
\* list assigns a snapshot taken before the invite was created.
C20_CacheKeepsInvite == [][C20_KeepStep]_vars

\* C20 for the assignment of `invite config enable` alone.
C20_EnableKeeps ==
    [][(\E s \in Tasks : tasks[s].kind = "enable" /\ tasks[s].pc = "assign" /\ tasks'[s].pc = "done")
          => C20_KeepStep]_vars

\* C20 for the assignment of an on_invite_create that fetched alone.
C20_CreateKeeps ==
    [][(\E s \in Tasks : tasks[s].kind = "invite_create" /\ tasks[s].pc = "ic_assign" /\ tasks'[s].pc # "ic_assign")
          => C20_KeepStep]_vars

\* ---- webhook creation
\* No channel holds more than one webhook of the bot.
C21_OneWebhook == \A c \in Channels : hooks[c] <= 1

\* A log embed that starts while a webhook URL is stored sends through that
\* URL: it neither lists nor creates webhooks.
C21_StoredStep ==
    \A t \in Tasks, g \in Guilds :
        (/\ \/ Starts(t, "invite_create", g)
            \/ Leaves(t, "invite_create", "ic_assign") /\ tasks[t].g = g
         /\ tasks'[t].pc # "done"
         /\ tasks'[t].pc # "ic_fetch"
         /\ config'[Str(g)].webhook # "None")
            => /\ tasks'[t].pc = "send"
               /\ tasks'[t].hook = config'[Str(g)].webhook
               /\ hooks' = hooks

\* C21: across the interleavings of the log-producing handlers of a guild
\* whose config holds no webhook URL, at most one webhook is created in the
\* log channel; and once a URL is stored, a send_log_embed that starts later
\* neither lists nor creates webhooks.
C21_WebhookNotDuplicated == []C21_OneWebhook /\ [][C21_StoredStep]_vars

\* The part of C21 about a stored URL.
C21_StoredUrlUsed == [][C21_StoredStep]_vars

\* ---- one thread creation per user
\* Interaction i calls manager.create in this step.
Requests(i) == itx[i].pc # "h_create" /\ itx'[i].pc = "h_create"

\* manager.create of interaction i has been called and has not returned.
Creating(i) == itx[i].kind = "contact" /\ itx[i].pc = "h_create"

C22_RequestStep ==
    \A i \in Interactions :
        Requests(i)
            => /\ threads[itx'[i].user] = 0
               /\ \A j \in Interactions \ {i} : ~(Creating(j) /\ itx[j].user = itx'[i].user)

\* C22: for any two interactions of one user on the ContactView, interleaved
\* at their awaits, manager.create is never requested for the user while a
\* thread of the user exists or another creation for the user is in progress.
C22_OneCreationPerUser == [][C22_RequestStep]_vars

\* C22 for an existing thread alone.
C22_NoRequestWithThread ==
    [][\A i \in Interactions : Requests(i) => threads[itx'[i].user] = 0]_vars

\* ---- one ContactView per manager
\* The manager's view is MISSING or a view that was constructed; a
\* construction that raised left the manager with the view it had.
C23_Attached ==
    /\ contact.view \in 0..contact.built
    /\ contact.stopped \subseteq 1..contact.built
    /\ contact.error = "RuntimeError" => contact.refusedBy \in 1..contact.built

C23_ViewStep ==
    /\ \* a view is constructed only when none is set, and it is attached
       contact'.built # contact.built
          => /\ contact.view = 0
             /\ contact'.built = contact.built + 1
             /\ contact'.view = contact'.built
             /\ contact'.error = "none"
    /\ \* while a view is set, a construction raises and the view stays
       (contact.view # 0 /\ contact'.view # 0)
          => contact'.view = contact.view /\ contact'.built = contact.built
    /\ (contact.view # 0 /\ (contact'.error # contact.error \/ contact'.refusedBy # contact.refusedBy))
          => /\ contact'.error = "RuntimeError"
             /\ contact'.refusedBy = contact.view
             /\ contact'.view = contact.view
    /\ \* force_stop stops the view and leaves the manager's view
       \A v \in 1..MaxViews :
          (v \in contact'.stopped \ contact.stopped \/ v \in contact'.stopping \ contact.stopping)
             => /\ contact'.view = contact.view
                /\ v \in contact'.stopped
                /\ v \in contact.withMessage <=> v \in contact'.stopping
                /\ contact'.shown = contact.shown
    /\ \* the edit takes the view off its message, or its error is suppressed
       \A v \in 1..MaxViews :
          v \in contact.stopping \ contact'.stopping
             => /\ contact'.view = contact.view
                /\ contact'.stopped = contact.stopped
                /\ \/ contact'.shown = contact.shown \ {v} /\ ~contact'.suppressed
                   \/ contact'.shown = contact.shown /\ contact'.suppressed

\* C23: at most one ContactView is attached to the manager: constructing one
\* while the manager's view is set raises RuntimeError and leaves the
\* manager's view as it is, constructing one when none is set attaches it;
\* force_stop stops the view and takes it off its message, suppressing an
\* HTTP error of the edit, and does not detach it from the manager, so no
\* ContactView can be constructed after force_stop alone.
C23_OneViewAttached == []C23_Attached /\ [][C23_ViewStep]_vars

\* The manager's view was stopped by force_stop and is off its message; a
\* construction after that raised RuntimeError and the manager still holds
\* the stopped view.
C23_Witness ==
    /\ contact.view # 0
    /\ contact.view \in contact.stopped
    /\ contact.view \in contact.withMessage
    /\ contact.view \notin contact.shown
    /\ contact.view \notin contact.stopping
    /\ contact.error = "RuntimeError"
    /\ contact.refusedBy = contact.view
    /\ contact.refusedStopped
====
